---- MODULE Spec2Model ----
(***************************************************************************)
(* A model of wopr-plugin-provider-openai: the retry helper                *)
(* retryWithBackoff, the streaming event translation of CodexClient.query  *)
(* and temperatureToEffort (src/src/index.ts), and the RealtimeClient      *)
(* (src/src/realtime.ts).                                                  *)
(*                                                                         *)
(* JavaScript values are modelled as follows.  An optional value is a set  *)
(* with at most one element ({} is undefined).  A string is a TLA+ string, *)
(* except an error message and a prompt, which the code searches or        *)
(* concatenates: those are sequences of words and of lines.                *)
(***************************************************************************)
EXTENDS Integers, Sequences, FiniteSets, TLC

VARIABLES
    \* ---- retryWithBackoff (one activation) ----
    rpc,        \* "idle" | "call" | "sleep" | "returned" | "threw"
    rOpts,      \* the opts argument: [maxRetries, baseDelayMs, retryableStatusCodes], each optional
    attempt,    \* the loop variable
    fnCalls,    \* how many times fn has been invoked
    lastErr,    \* the error of the latest failed invocation of fn (optional)
    warns,      \* what logger.warn received, in order
    waits,      \* the delays handed to setTimeout, in order
    rOutcome,   \* the value returned or the error thrown by retryWithBackoff (optional)
    \* ---- CodexClient.query (one call) ----
    pc,         \* "off" | "getCodex" | "thread" | "retry" | "iterate" | "done" | "threw"
    opts,       \* the ModelQueryOptions of the call
    thread,     \* the Thread handle (optional)
    prompt,     \* the assembled prompt (lines)
    calls,      \* the calls made on the backend, in order
    consumed,   \* the upstream events the for-await loop has received, in order
    out,        \* the canonical events yielded, in order
    thrown,     \* the error query() threw (optional)
    abandoned,  \* whether the consumer has called return() on the generator of query()
    \* ---- temperatureToEffort (the two latest calls) ----
    effPrev,    \* the call before the latest: [temp, effort] (optional)
    effCur,     \* the latest call: [temp, effort] (optional)
    \* ---- RealtimeClient (one instance) ----
    ws,         \* this.ws: the number of the socket the client holds (optional)
    conns,      \* per connect() that created a socket: the socket and the closure of its handlers
    emitted,    \* the events handed to emit(), in order
    nMsgs,      \* how many inbound messages the sockets have delivered
    lastConnectError,  \* what the latest connect() threw before creating a socket (optional)
    credential, \* this.credential: the constructor's first argument
    options,    \* this.options: [baseUrl, tenantToken], each optional
    listeners,  \* this.listeners: the callbacks registered, each with the number of
                \* the onEvent() call that pushed it (the code holds the callback only)
    registered, \* the callback of every onEvent() call, in order: what the
                \* unsubscribe function it returned has captured
    unsubscribed, \* the unsubscribe functions called, in order, by onEvent() number
    received,   \* every call of a listener by emit(), in order
    \* ---- CodexClient (one instance) and what it reads ----
    authFile,   \* ~/.codex/auth.json: whether it exists, can be read, and what it holds
    envKey,     \* process.env.OPENAI_API_KEY (optional)
    sdkInstalled, \* whether import("@openai/codex-sdk") succeeds
    client,     \* the fields of the CodexClient: [credential, options, authType, codex],
                \* and given: the credential its constructor was called with
    built,      \* the arguments of every `new Codex(...)`, in order
    callers     \* the calls of query() and healthCheck() on the client, in order

retryVars == <<rpc, rOpts, attempt, fnCalls, lastErr, warns, waits, rOutcome>>
queryVars == <<pc, opts, thread, prompt, calls, consumed, out, thrown>>
effortVars == <<effPrev, effCur>>
realtimeVars == <<ws, conns, emitted, nMsgs, lastConnectError, credential, options,
                  listeners, registered, unsubscribed, received>>
subscriptionVars == <<listeners, registered, unsubscribed>>
codexVars == <<authFile, envKey, sdkInstalled, client, built, callers>>
vars == <<rpc, rOpts, attempt, fnCalls, lastErr, warns, waits, rOutcome,
          pc, opts, thread, prompt, calls, consumed, out, thrown, abandoned,
          effPrev, effCur, ws, conns, emitted, nMsgs, lastConnectError,
          credential, options, listeners, registered, unsubscribed, received,
          authFile, envKey, sdkInstalled, client, built, callers>>

-----------------------------------------------------------------------------
(* Bounds of the model. *)

\* The largest explicit opts.maxRetries a direct caller of retryWithBackoff passes.
MaxRetriesArg == 2
\* The longest upstream event stream of one turn.
MaxEvents == 2
\* The most images of one query.
MaxImages == 2

-----------------------------------------------------------------------------
(* JavaScript helpers. *)

Undefined == {}
Some(x) == {x}
Get(o) == CHOOSE x \in o : TRUE

\* a ?? b
Coalesce(a, b) == IF a # Undefined THEN a ELSE b

\* Truthiness of an optional string: undefined and "" are falsy.
TruthyStr(o) == o # Undefined /\ o # Some("")

\* Truthiness of an optional number: undefined and 0 are falsy.
TruthyNum(o) == o # Undefined /\ o # Some(0)

\* a || b on optional strings
OrStr(a, b) == IF TruthyStr(a) THEN a ELSE b

\* msg.includes(marker), on sequences of words
Includes(msg, marker) ==
    \E i \in 1..(Len(msg) - Len(marker) + 1) :
        SubSeq(msg, i, i + Len(marker) - 1) = marker

RECURSIVE Pow2(_)
Pow2(n) == IF n = 0 THEN 1 ELSE 2 * Pow2(n - 1)

-----------------------------------------------------------------------------
(* retryWithBackoff *)

DefaultMaxRetries == 3
DefaultBaseDelayMs == 1000
DefaultRetryableCodes == {429, 503}

MaxRetriesOf(o) == Get(Coalesce(o.maxRetries, Some(DefaultMaxRetries)))
BaseDelayOf(o) == Get(Coalesce(o.baseDelayMs, Some(DefaultBaseDelayMs)))
RetryableCodesOf(o) == Get(Coalesce(o.retryableStatusCodes, Some(DefaultRetryableCodes)))

\* The substrings of a message that mark a transient network failure.
NetworkMarkers ==
    { <<"ECONNRESET">>, <<"ECONNREFUSED">>, <<"ETIMEDOUT">>,
      <<"fetch", "failed">>, <<"network">>, <<"socket", "hang", "up">> }

\* (error as any)?.status ?? (error as any)?.statusCode
ErrStatus(e) == Coalesce(e.status, e.statusCode)

MutIsRetryable(e, codes) ==
    (TruthyNum(ErrStatus(e)) /\ Get(ErrStatus(e)) \in codes)

IsRetryable(e, codes) ==
    \/ (TruthyNum(ErrStatus(e)) /\ Get(ErrStatus(e)) \in codes)
    \/ \E m \in NetworkMarkers : Includes(e.message, m)

MutBackoffDelay(base, n) == base * (n + 1)

\* baseDelayMs * 2 ** attempt
BackoffDelay(base, n) == base * Pow2(n)

\* The text of the warning: attempt n+1 of maxRetries, the status or else the
\* message, and the delay.
WarnOf(e, n, o) ==
    [ attempt |-> n + 1,
      of      |-> MaxRetriesOf(o),
      what    |-> IF TruthyNum(ErrStatus(e))
                  THEN [status |-> Get(ErrStatus(e))]
                  ELSE [snippet |-> e.message],
      delay   |-> BackoffDelay(BaseDelayOf(o), n) ]

MutIsLastAttempt(n, o) == n >= MaxRetriesOf(o) - 1

\* attempt === maxRetries
IsLastAttempt(n, o) == n = MaxRetriesOf(o)

\* retryWithBackoff is entered with opts o: the loop starts at attempt 0.
RetryEnter(o) ==
    /\ rpc' = "call"
    /\ rOpts' = o
    /\ attempt' = 0
    /\ fnCalls' = 0
    /\ lastErr' = Undefined
    /\ warns' = <<>>
    /\ waits' = <<>>
    /\ rOutcome' = Undefined

\* fn() resolved with value v: return await fn()
RetryFnResolves(v) ==
    /\ rpc = "call"
    /\ fnCalls' = fnCalls + 1
    /\ rpc' = "returned"
    /\ rOutcome' = Some(v)
    /\ UNCHANGED <<rOpts, attempt, lastErr, warns, waits>>

\* fn() rejected with error e: the catch block
RetryFnRejects(e) ==
    /\ rpc = "call"
    /\ fnCalls' = fnCalls + 1
    /\ lastErr' = Some(e)
    /\ IF IsLastAttempt(attempt, rOpts) \/ ~IsRetryable(e, RetryableCodesOf(rOpts))
       THEN /\ rpc' = "threw"
            /\ rOutcome' = Some(e)
            /\ UNCHANGED <<warns, waits>>
       ELSE /\ rpc' = "sleep"
            /\ warns' = Append(warns, WarnOf(e, attempt, rOpts))
            /\ waits' = Append(waits, BackoffDelay(BaseDelayOf(rOpts), attempt))
            /\ UNCHANGED rOutcome
    /\ UNCHANGED <<rOpts, attempt>>

\* The setTimeout of the backoff wait fires: the loop goes to its next round.
RetryTimerFires ==
    /\ rpc = "sleep"
    /\ rpc' = "call"
    /\ attempt' = attempt + 1
    /\ UNCHANGED <<rOpts, fnCalls, lastErr, warns, waits, rOutcome>>

-----------------------------------------------------------------------------
(* The errors fn can fail with, and the options a direct caller passes. *)

Err(id, st, sc, msg) == [id |-> id, status |-> st, statusCode |-> sc, message |-> msg]

E429 == Err("e429", Some(429), Undefined, <<"rate", "limited">>)
E401 == Err("e401", Some(401), Undefined, <<"unauthorized">>)
E503 == Err("e503", Undefined, Some(503), <<"unavailable">>)
E500 == Err("e500", Some(500), Some(429), <<"internal", "error">>)
EZero == Err("e0", Some(0), Undefined, <<"aborted">>)
EReset == Err("reset", Undefined, Undefined, <<"read", "ECONNRESET">>)
EFetch == Err("fetch", Undefined, Undefined, <<"TypeError:", "fetch", "failed">>)
EHang == Err("hang", Undefined, Undefined, <<"socket", "hang", "up">>)
EPlain == Err("plain", Undefined, Undefined, <<"socket", "closed", "up">>)

RetryErrors == {E429, E401, E503, E500, EZero, EReset, EFetch, EHang, EPlain}

RetryOptsSpace ==
    [ maxRetries : {Undefined} \cup {Some(n) : n \in 0..MaxRetriesArg},
      baseDelayMs : {Undefined, Some(1), Some(250)},
      retryableStatusCodes : {Undefined, Some({429}), Some({500, 503})} ]

\* temperatureToEffort has not been called.
EffortIdle == effPrev = Undefined /\ effCur = Undefined

\* new CodexClient("sk-test-key-123") on a host without credentials, nothing called.
CodexIdle ==
    /\ authFile = [exists |-> FALSE, readable |-> FALSE, json |-> Undefined]
    /\ envKey = Undefined
    /\ sdkInstalled = TRUE
    /\ client = [given |-> <<"sk-", "test-key-123">>,
                 credential |-> <<"sk-", "test-key-123">>,
                 options |-> [baseUrl |-> Undefined, tenantToken |-> Undefined],
                 authType |-> "api_key", codex |-> Undefined]
    /\ built = <<>>
    /\ callers = <<>>

\* A RealtimeClient on which nothing has been called.
RealtimeFresh ==
    /\ ws = Undefined /\ conns = <<>> /\ emitted = <<>> /\ nMsgs = 0
    /\ lastConnectError = Undefined
    /\ listeners = <<>> /\ registered = <<>> /\ unsubscribed = <<>> /\ received = <<>>

\* createRealtimeClient("sk-test-123"), on which nothing has been called.
RealtimeIdle ==
    /\ RealtimeFresh
    /\ credential = "sk-test-123"
    /\ options = [baseUrl |-> Undefined, tenantToken |-> Undefined]

QueryIdle ==
    /\ pc = "off" /\ opts = Undefined /\ thread = Undefined /\ prompt = <<>>
    /\ calls = <<>> /\ consumed = <<>> /\ out = <<>> /\ thrown = Undefined
    /\ abandoned = FALSE

\* A direct call retryWithBackoff(fn, o, logger).
InitRetry ==
    /\ QueryIdle /\ EffortIdle /\ RealtimeIdle /\ CodexIdle
    /\ \E o \in RetryOptsSpace :
        /\ rpc = "call" /\ rOpts = o /\ attempt = 0 /\ fnCalls = 0
        /\ lastErr = Undefined /\ warns = <<>> /\ waits = <<>> /\ rOutcome = Undefined

FnResolves == RetryFnResolves("ok") /\ UNCHANGED queryVars /\ UNCHANGED <<effortVars, realtimeVars, codexVars, abandoned>>
FnRejects == (\E e \in RetryErrors : RetryFnRejects(e)) /\ UNCHANGED queryVars /\ UNCHANGED <<effortVars, realtimeVars, codexVars, abandoned>>
BackoffElapses == RetryTimerFires /\ UNCHANGED queryVars /\ UNCHANGED <<effortVars, realtimeVars, codexVars, abandoned>>

NextRetry == FnResolves \/ FnRejects \/ BackoffElapses

SpecRetry == InitRetry /\ [][NextRetry]_vars

-----------------------------------------------------------------------------
(* CodexClient.query: the inputs. *)

ImageUrls == <<"https://example.com/a.png", "https://example.com/b.png",
               "https://example.com/c.png", "https://example.com/d.png">>

ImageList(n) == [i \in 1..n |-> ImageUrls[((i - 1) % Len(ImageUrls)) + 1]]

QueryOptsSpace ==
    [ prompt : {"Describe this image"},
      systemPrompt : {Undefined, Some(""), Some("You are a helpful assistant")},
      resume : {Undefined, Some(""), Some("thread-456")},
      images : {Undefined} \cup {Some(ImageList(n)) : n \in 0..MaxImages} ]

\* The backend's native events (ThreadEvent of the Codex SDK), one of each shape
\* the translation distinguishes.
Item(i) == [type |-> "item.completed", item |-> i]

EvThreadStarted == [type |-> "thread.started", thread_id |-> Some("thread-abc")]
EvThreadStartedNoId == [type |-> "thread.started", thread_id |-> Undefined]
EvTurnStarted == [type |-> "turn.started"]
EvAgentMessage == Item([type |-> "agent_message", text |-> "hi"])
EvReasoning == Item([type |-> "reasoning", text |-> "thinking"])
EvCommand ==
    Item([type |-> "command_execution", command |-> "echo hello",
          aggregated_output |-> "hello", exit_code |-> Some(0)])
EvFileChange == Item([type |-> "file_change"])
EvMcpToolCall == Item([type |-> "mcp_tool_call", server |-> "myserver", tool |-> "mytool"])
EvWebSearch == Item([type |-> "web_search"])
EvItemStarted == [type |-> "item.started"]
EvTurnCompleted == [type |-> "turn.completed"]
EvTurnFailed ==
    [type |-> "turn.failed", error |-> Some([message |-> Some("Rate limit exceeded")])]
EvTurnFailedNoMessage == [type |-> "turn.failed", error |-> Undefined]

UpstreamEvents ==
    { EvThreadStarted, EvThreadStartedNoId, EvTurnStarted, EvAgentMessage, EvReasoning,
      EvCommand, EvFileChange, EvMcpToolCall, EvWebSearch, EvItemStarted,
      EvTurnCompleted, EvTurnFailed, EvTurnFailedNoMessage }

\* What the backend can fail with: runStreamed (through the retrier), thread
\* creation, and the event stream while it is iterated.
StreamErrors == {E429, E401}
ThreadError == Err("spawn", Undefined, Undefined, <<"spawn", "codex", "ENOENT">>)
IterationError == Err("exit", Undefined, Undefined, <<"Codex", "Exec", "exited">>)
NoCredentialsError ==
    Err("nocreds", Undefined, Undefined, <<"No", "valid", "credentials", "available.">>)

-----------------------------------------------------------------------------
(* CodexClient.query: the canonical events. *)

SystemInit(sid) == [type |-> "system", subtype |-> "init", session_id |-> sid]
SystemTurnStart == [type |-> "system", subtype |-> "turn_start"]
SystemReasoning(text) == [type |-> "system", subtype |-> "reasoning", content |-> text]
SystemToolResult(content, code) ==
    [type |-> "system", subtype |-> "tool_result", content |-> content, exit_code |-> code]
Assistant(block) == [type |-> "assistant", message |-> [content |-> <<block>>]]
TextBlock(text) == [type |-> "text", text |-> text]
ToolUse(name) == [type |-> "tool_use", name |-> name]
ToolUseWithInput(name, input) == [type |-> "tool_use", name |-> name, input |-> input]
ResultError(msg) ==
    [type |-> "result", subtype |-> "error", errors |-> <<[message |-> msg]>>]
ResultSuccess == [type |-> "result", subtype |-> "success"]

MutTranslateItem(item) ==
    CASE item.type = "agent_message" -> <<Assistant(TextBlock(item.text))>>
      [] item.type = "reasoning" -> <<SystemReasoning(item.text)>>
      [] item.type = "command_execution" ->
            << SystemToolResult(item.aggregated_output, item.exit_code),
               Assistant(ToolUseWithInput("bash", [command |-> item.command])) >>
      [] item.type = "file_change" -> <<Assistant(ToolUse("file_change"))>>
      [] item.type = "mcp_tool_call" ->
            <<Assistant(ToolUse("mcp__" \o item.server \o "__" \o item.tool))>>
      [] OTHER -> <<>>

\* case "item.completed": what the if / else-if chain yields for one item
TranslateItem(item) ==
    CASE item.type = "agent_message" -> <<Assistant(TextBlock(item.text))>>
      [] item.type = "reasoning" -> <<SystemReasoning(item.text)>>
      [] item.type = "command_execution" ->
            << Assistant(ToolUseWithInput("bash", [command |-> item.command])),
               SystemToolResult(item.aggregated_output, item.exit_code) >>
      [] item.type = "file_change" -> <<Assistant(ToolUse("file_change"))>>
      [] item.type = "mcp_tool_call" ->
            <<Assistant(ToolUse("mcp__" \o item.server \o "__" \o item.tool))>>
      [] OTHER -> <<>>

\* event.thread_id || thread.id || ""
SessionIdOf(event, th) == Get(OrStr(OrStr(event.thread_id, th.id), Some("")))

\* event.error?.message || "Unknown error"
FailureMessageOf(event) ==
    Get(OrStr(IF event.error = Undefined THEN Undefined ELSE Get(event.error).message,
              Some("Unknown error")))

MutTranslate(event, th) ==
    CASE event.type = "thread.started" ->
            IF TruthyStr(event.thread_id) THEN <<SystemInit(Get(event.thread_id))>> ELSE <<>>
      [] event.type = "turn.started" -> <<SystemTurnStart>>
      [] event.type = "item.completed" -> TranslateItem(event.item)
      [] event.type = "turn.completed" -> <<>>
      [] event.type = "turn.failed" -> <<ResultError(FailureMessageOf(event))>>
      [] OTHER -> <<>>

\* The same reporting the usage of a completed turn.
MutTranslateReportsUsage(event, th) ==
    CASE event.type = "thread.started" -> <<SystemInit(SessionIdOf(event, th))>>
      [] event.type = "turn.started" -> <<SystemTurnStart>>
      [] event.type = "item.completed" -> TranslateItem(event.item)
      [] event.type = "turn.completed" -> <<[type |-> "system", subtype |-> "usage"]>>
      [] event.type = "turn.failed" -> <<ResultError(FailureMessageOf(event))>>
      [] OTHER -> <<>>

\* The switch of the for-await loop: what one upstream event yields.
Translate(event, th) ==
    CASE event.type = "thread.started" -> <<SystemInit(SessionIdOf(event, th))>>
      [] event.type = "turn.started" -> <<SystemTurnStart>>
      [] event.type = "item.completed" -> TranslateItem(event.item)
      [] event.type = "turn.completed" -> <<>>
      [] event.type = "turn.failed" -> <<ResultError(FailureMessageOf(event))>>
      [] OTHER -> <<>>

-----------------------------------------------------------------------------
(* CodexClient.query: prompt assembly.  A prompt is a sequence of lines. *)

Line(kind, n, text) == [kind |-> kind, n |-> n, text |-> text]
BlankLine == Line("blank", 0, "")
UserLine(o) == Line("user", 0, o.prompt)
\* "[User has shared N image(s)]" and "[Image i]: url"
ImageHeaderLine(n) == Line("imageHeader", n, "")
ImageLine(i, url) == Line("image", i, url)
\* "[System: ...]"
SystemLine(text) == Line("system", 0, text)

HasImages(o) == o.images # Undefined /\ Len(Get(o.images)) > 0

ImageBlock(o) ==
    <<ImageHeaderLine(Len(Get(o.images)))>>
        \o [i \in 1..Len(Get(o.images)) |-> ImageLine(i, Get(o.images)[i])]

\* let prompt = opts.prompt; if (opts.images && opts.images.length > 0) ...
WithImages(o) ==
    IF HasImages(o)
    THEN ImageBlock(o) \o <<BlankLine>> \o <<UserLine(o)>>
    ELSE <<UserLine(o)>>

MutAssemblePrompt(o) ==
    IF TruthyStr(o.systemPrompt)
    THEN <<SystemLine(Get(o.systemPrompt))>> \o <<UserLine(o)>>
    ELSE WithImages(o)

\* if (opts.systemPrompt) prompt = `[System: ...]\n\n${prompt}`
AssemblePrompt(o) ==
    IF TruthyStr(o.systemPrompt)
    THEN <<SystemLine(Get(o.systemPrompt))>> \o <<BlankLine>> \o WithImages(o)
    ELSE WithImages(o)

-----------------------------------------------------------------------------
(* CodexClient.query: the generator. *)

ResumeCall(id) == [op |-> "resumeThread", id |-> id]
StartCall ==
    [op |-> "startThread",
     options |-> [sandboxMode |-> "workspace-write", approvalPolicy |-> "never"]]
RunStreamedCall(p) == [op |-> "runStreamed", prompt |-> p]

\* The same allowing a fourth retry.
MutQueryRetryOpts ==
    [maxRetries |-> Some(4), baseDelayMs |-> Some(1000), retryableStatusCodes |-> Undefined]

\* The retry policy query() passes: { maxRetries: 3, baseDelayMs: 1000 }
QueryRetryOpts ==
    [maxRetries |-> Some(3), baseDelayMs |-> Some(1000), retryableStatusCodes |-> Undefined]

\* new Error(`OpenAI query failed: ${error.message}`)
WrapError(e) ==
    Err("wrapped", Undefined, Undefined, <<"OpenAI", "query", "failed:">> \o e.message)

MutUsesResume(o) == o.resume # Undefined

\* if (opts.resume)
UsesResume(o) == TruthyStr(o.resume)

RetryIdle ==
    /\ rpc = "idle" /\ rOpts = QueryRetryOpts /\ attempt = 0 /\ fnCalls = 0
    /\ lastErr = Undefined /\ warns = <<>> /\ waits = <<>> /\ rOutcome = Undefined

\* A call query(o) on a fresh client.
InitQuery ==
    /\ RetryIdle /\ EffortIdle /\ RealtimeIdle /\ CodexIdle
    /\ \E o \in QueryOptsSpace :
        /\ pc = "getCodex" /\ opts = Some(o) /\ thread = Undefined /\ prompt = <<>>
        /\ calls = <<>> /\ consumed = <<>> /\ out = <<>> /\ thrown = Undefined
        /\ abandoned = FALSE

\* The catch block of query(): log, wrap and re-throw.
QueryCatch(e) ==
    /\ pc' = "threw"
    /\ thrown' = Some(WrapError(e))

\* const codex = await this.getCodex(): outside the try block, its error is not wrapped.
QueryGetCodex ==
    /\ pc = "getCodex"
    /\ \/ /\ pc' = "thread"
          /\ UNCHANGED thrown
       \/ /\ pc' = "threw"
          /\ thrown' = Some(NoCredentialsError)
    /\ UNCHANGED <<opts, thread, prompt, calls, consumed, out>>
    /\ UNCHANGED retryVars
    /\ UNCHANGED <<effortVars, realtimeVars, codexVars, abandoned>>

\* resumeThread or startThread, then the prompt is assembled and retryWithBackoff
\* entered.  A resumed thread's handle carries the id it was resumed with; a new
\* thread's handle has no id yet.  Either call may throw, inside the try block.
QueryOpenThread ==
    /\ pc = "thread"
    /\ LET o == Get(opts)
           call == IF UsesResume(o) THEN ResumeCall(Get(o.resume)) ELSE StartCall
       IN /\ calls' = Append(calls, call)
          /\ \/ /\ thread' = Some([id |-> IF UsesResume(o) THEN o.resume ELSE Undefined])
                /\ prompt' = AssemblePrompt(o)
                /\ pc' = "retry"
                /\ RetryEnter(QueryRetryOpts)
                /\ UNCHANGED thrown
             \/ /\ QueryCatch(ThreadError)
                /\ UNCHANGED <<thread, prompt>>
                /\ UNCHANGED retryVars
    /\ UNCHANGED <<opts, consumed, out>>
    /\ UNCHANGED <<effortVars, realtimeVars, codexVars, abandoned>>

\* fn = () => thread.runStreamed(prompt) resolves: the loop over events starts.
QueryRunStreamedResolves ==
    /\ pc = "retry"
    /\ RetryFnResolves("events")
    /\ calls' = Append(calls, RunStreamedCall(prompt))
    /\ pc' = "iterate"
    /\ UNCHANGED <<opts, thread, prompt, consumed, out, thrown>>
    /\ UNCHANGED <<effortVars, realtimeVars, codexVars, abandoned>>

\* fn rejects: retryWithBackoff either waits or throws, and what it throws is caught.
QueryRunStreamedRejects ==
    /\ pc = "retry"
    /\ \E e \in StreamErrors : RetryFnRejects(e)
    /\ calls' = Append(calls, RunStreamedCall(prompt))
    /\ IF rpc' = "threw"
       THEN QueryCatch(Get(rOutcome'))
       ELSE UNCHANGED <<pc, thrown>>
    /\ UNCHANGED <<opts, thread, prompt, consumed, out>>
    /\ UNCHANGED <<effortVars, realtimeVars, codexVars, abandoned>>

QueryBackoffElapses ==
    /\ pc = "retry"
    /\ RetryTimerFires
    /\ UNCHANGED queryVars
    /\ UNCHANGED <<effortVars, realtimeVars, codexVars, abandoned>>

\* One round of the for-await loop: an upstream event arrives and is translated.
QueryNextEvent ==
    /\ pc = "iterate"
    /\ Len(consumed) < MaxEvents
    /\ \E e \in UpstreamEvents :
        /\ consumed' = Append(consumed, e)
        /\ out' = out \o Translate(e, Get(thread))
    /\ UNCHANGED <<pc, opts, thread, prompt, calls, thrown>>
    /\ UNCHANGED retryVars
    /\ UNCHANGED <<effortVars, realtimeVars, codexVars, abandoned>>

\* The stream is exhausted: the final result is yielded and the generator returns.
QueryStreamEnds ==
    /\ pc = "iterate"
    /\ out' = Append(out, ResultSuccess)
    /\ pc' = "done"
    /\ UNCHANGED <<opts, thread, prompt, calls, consumed, thrown>>
    /\ UNCHANGED retryVars
    /\ UNCHANGED <<effortVars, realtimeVars, codexVars, abandoned>>

\* The stream raises while it is iterated.
QueryStreamThrows ==
    /\ pc = "iterate"
    /\ QueryCatch(IterationError)
    /\ UNCHANGED <<opts, thread, prompt, calls, consumed, out>>
    /\ UNCHANGED retryVars
    /\ UNCHANGED <<effortVars, realtimeVars, codexVars, abandoned>>

NextQuery ==
    \/ QueryGetCodex
    \/ QueryOpenThread
    \/ QueryRunStreamedResolves
    \/ QueryRunStreamedRejects
    \/ QueryBackoffElapses
    \/ QueryNextEvent
    \/ QueryStreamEnds
    \/ QueryStreamThrows

SpecQuery == InitQuery /\ [][NextQuery]_vars

-----------------------------------------------------------------------------
(* Properties of CodexClient.query, checked under SpecQuery. *)

IsTerminalEvent(ev) == ev.type = "result"
IsSuccessEvent(ev) == ev.type = "result" /\ ev.subtype = "success"
IsErrorEvent(ev) == ev.type = "result" /\ ev.subtype = "error"
IsInitEvent(ev) == ev.type = "system" /\ ev.subtype = "init"
IsThreadStarted(e) == e.type = "thread.started"
IsTurnFailed(e) == e.type = "turn.failed"

\* query() has got the event stream and is translating it, or has finished doing so.
Translating == pc \in {"iterate", "done"}

\* C1: the canonical output holds at most one terminal event (result/success or
\* result/error), and a terminal event is the last event emitted.
C1_AtMostOneTerminalAndLast ==
    pc = "done" =>
    /\ Cardinality({k \in DOMAIN out : IsTerminalEvent(out[k])}) <= 1
    /\ \A i \in {k \in DOMAIN out : IsTerminalEvent(out[k])} : i = Len(out)

\* C2: when the upstream sequence ends with turn.failed, the last canonical event
\* is result/error with the failure's message (the generic fallback when none is
\* given), and no result/success is emitted for the turn.
C2_FailedTurnEndsWithError ==
    (pc = "done" /\ consumed # <<>> /\ IsTurnFailed(consumed[Len(consumed)]))
        => /\ out # <<>>
           /\ out[Len(out)] =
                 [ type |-> "result", subtype |-> "error",
                   errors |-> << [message |->
                      IF consumed[Len(consumed)] = EvTurnFailed
                      THEN "Rate limit exceeded" ELSE "Unknown error"] >> ]
           /\ {k \in DOMAIN out : IsSuccessEvent(out[k])} = {}

\* The mapping table of the event translator, row by row.  localId is the id of
\* the thread handle the client holds.
TableRow(e, localId) ==
    IF e.type = "thread.started"
    THEN << [type |-> "system", subtype |-> "init",
             session_id |-> IF e.thread_id \notin {{}, {""}} THEN Get(e.thread_id)
                            ELSE IF localId \notin {{}, {""}} THEN Get(localId) ELSE ""] >>
    ELSE IF e.type = "turn.started"
    THEN << [type |-> "system", subtype |-> "turn_start"] >>
    ELSE IF e.type = "item.completed" /\ e.item.type = "agent_message"
    THEN << [type |-> "assistant",
             message |-> [content |-> << [type |-> "text", text |-> e.item.text] >>]] >>
    ELSE IF e.type = "item.completed" /\ e.item.type = "reasoning"
    THEN << [type |-> "system", subtype |-> "reasoning", content |-> e.item.text] >>
    ELSE IF e.type = "item.completed" /\ e.item.type = "command_execution"
    THEN << [type |-> "assistant",
             message |-> [content |-> << [type |-> "tool_use", name |-> "bash",
                                          input |-> [command |-> e.item.command]] >>]],
            [type |-> "system", subtype |-> "tool_result",
             content |-> e.item.aggregated_output, exit_code |-> e.item.exit_code] >>
    ELSE IF e.type = "item.completed" /\ e.item.type = "file_change"
    THEN << [type |-> "assistant",
             message |-> [content |-> << [type |-> "tool_use", name |-> "file_change"] >>]] >>
    ELSE IF e.type = "item.completed" /\ e.item.type = "mcp_tool_call"
    THEN << [type |-> "assistant",
             message |-> [content |-> << [type |-> "tool_use",
                                          name |-> "mcp__" \o e.item.server
                                                      \o "__" \o e.item.tool] >>]] >>
    ELSE <<>>

RECURSIVE TableOutput(_, _)
TableOutput(es, localId) ==
    IF es = <<>> THEN <<>>
    ELSE TableRow(Head(es), localId) \o TableOutput(Tail(es), localId)

\* C3: for an upstream sequence without turn.failed and without an exception, the
\* output is the concatenation, in upstream order, of each event's row of the
\* mapping table, followed (once the stream is exhausted) by exactly one
\* result/success; in particular a tool_result directly follows its tool_use.
C3_OutputIsTableExpansion ==
    (Translating /\ {k \in DOMAIN consumed : IsTurnFailed(consumed[k])} = {})
        => out = TableOutput(consumed, Get(thread).id)
                   \o (IF pc = "done" THEN << [type |-> "result", subtype |-> "success"] >>
                       ELSE <<>>)

C3_Witness ==
    /\ pc = "done"
    /\ Len(consumed) >= 2
    /\ consumed[1] = EvCommand
    /\ consumed[2] = EvThreadStartedNoId
    /\ Get(thread).id = Some("thread-456")
    /\ Len(out) = 4

\* C4 as claimed: when the upstream sequence begins with thread.started, the
\* output holds exactly one system/init, and it is the first event.
C4_ExactlyOneInit ==
    (Translating /\ consumed # <<>> /\ IsThreadStarted(consumed[1]))
        => {k \in DOMAIN out : IsInitEvent(out[k])} = {1}

\* C4 as amended: every thread.started yields one system/init, in place: the
\* output holds as many system/init events as thread.started events were
\* consumed; it begins with system/init when the upstream begins with
\* thread.started; and when thread.started occurs only at the start of the
\* upstream sequence, that system/init is the only one.
C4_OneInitPerThreadStarted ==
    Translating =>
        /\ Cardinality({k \in DOMAIN out : IsInitEvent(out[k])}) = Cardinality({k \in DOMAIN consumed : IsThreadStarted(consumed[k])})
        /\ (consumed # <<>> /\ IsThreadStarted(consumed[1])) => 1 \in {k \in DOMAIN out : IsInitEvent(out[k])}
        /\ {k \in DOMAIN consumed : IsThreadStarted(consumed[k])} = {1} => {k \in DOMAIN out : IsInitEvent(out[k])} = {1}

C4_Witness ==
    /\ pc = "done"
    /\ Len(consumed) >= 2
    /\ {k \in DOMAIN consumed : IsThreadStarted(consumed[k])} = {1}
    /\ consumed[1] = EvThreadStartedNoId
    /\ {k \in DOMAIN out : IsInitEvent(out[k])} = {1}
    /\ Len(out) > 2

\* The error the catch block of query() caught, when the failure came from
\* obtaining the event stream (retries exhausted or not retryable) or from
\* iterating it.
StreamFailure ==
    IF pc = "threw" /\ rpc = "threw" THEN rOutcome
    ELSE IF pc = "threw" /\ rpc = "returned" THEN Some(IterationError)
    ELSE Undefined

\* C5: when obtaining the event stream fails or iterating it raises, query()
\* throws an error whose message is the component prefix followed by the original
\* message, and the call emits neither result/error nor result/success.
C5_StreamFailureThrowsWithoutResult ==
    StreamFailure # Undefined
        => /\ thrown # Undefined
           /\ Get(thrown).message = <<"OpenAI", "query", "failed:">> \o Get(StreamFailure).message
           /\ {k \in DOMAIN out : IsTerminalEvent(out[k])} = {}

\* C9 as claimed: a call with resume = T calls resumeThread exactly once, with T,
\* and never startThread; a call without resume calls startThread exactly once and
\* never resumeThread.
IsResumeCall(c) == c.op = "resumeThread"
IsStartCall(c) == c.op = "startThread"
IsRunStreamedCall(c) == c.op = "runStreamed"
ThreadObtained == pc \in {"retry", "iterate", "done"}

C9_ResumeCallsResumeThread ==
    ThreadObtained =>
        IF Get(opts).resume # Undefined
        THEN /\ {k \in DOMAIN calls : IsStartCall(calls[k])} = {}
             /\ Cardinality({k \in DOMAIN calls : IsResumeCall(calls[k])}) = 1
             /\ \A i \in {k \in DOMAIN calls : IsResumeCall(calls[k])} : calls[i].id = Get(Get(opts).resume)
        ELSE /\ {k \in DOMAIN calls : IsResumeCall(calls[k])} = {}
             /\ Cardinality({k \in DOMAIN calls : IsStartCall(calls[k])}) = 1

\* C9 as amended: a call with a non-empty resume = T calls resumeThread exactly
\* once, with exactly T, and never startThread; a call without resume, or with the
\* empty string as resume, calls startThread exactly once and never resumeThread.
\* Before the thread is obtained neither has been called, and neither is ever
\* called a second time.
C9_NonEmptyResumeCallsResumeThread ==
    /\ Cardinality({k \in DOMAIN calls : IsStartCall(calls[k])}) + Cardinality({k \in DOMAIN calls : IsResumeCall(calls[k])}) <= 1
    /\ pc = "getCodex" => calls = <<>>
    /\ ThreadObtained =>
        IF Get(opts).resume \notin {{}, {""}}
        THEN /\ {k \in DOMAIN calls : IsStartCall(calls[k])} = {}
             /\ Cardinality({k \in DOMAIN calls : IsResumeCall(calls[k])}) = 1
             /\ \A i \in {k \in DOMAIN calls : IsResumeCall(calls[k])} : calls[i].id = Get(Get(opts).resume)
        ELSE /\ {k \in DOMAIN calls : IsResumeCall(calls[k])} = {}
             /\ Cardinality({k \in DOMAIN calls : IsStartCall(calls[k])}) = 1

C9_Witness ==
    /\ pc = "done"
    /\ Get(opts).resume = Some("thread-456")
    /\ calls[1] = [op |-> "resumeThread", id |-> "thread-456"]
    /\ {k \in DOMAIN calls : IsStartCall(calls[k])} = {}

\* The blocks of the prompt, each followed by the blank line that separates it
\* from what comes next.
ImageBlockOf(o) ==
    IF o.images # {} /\ Get(o.images) # <<>>
    THEN << [kind |-> "imageHeader", n |-> Len(Get(o.images)), text |-> ""] >>
         \o [i \in 1..Len(Get(o.images)) |->
                [kind |-> "image", n |-> i, text |-> Get(o.images)[i]]]
         \o << [kind |-> "blank", n |-> 0, text |-> ""] >>
    ELSE <<>>

SystemBlockOf(o) ==
    IF o.systemPrompt \notin {{}, {""}}
    THEN << [kind |-> "system", n |-> 0, text |-> Get(o.systemPrompt)],
            [kind |-> "blank", n |-> 0, text |-> ""] >>
    ELSE <<>>

UserPromptOf(o) == << [kind |-> "user", n |-> 0, text |-> o.prompt] >>

\* C10 as claimed: the prompt passed to runStreamed is the image block (present iff
\* images is non-empty, one line per image with a 1-based index), then the
\* system-prompt block (present iff a system prompt is supplied), then the user
\* prompt, separated by blank lines.
C10_ImageBlockThenSystemBlock ==
    \A i \in {k \in DOMAIN calls : IsRunStreamedCall(calls[k])} :
        calls[i].prompt =
            ImageBlockOf(Get(opts)) \o SystemBlockOf(Get(opts)) \o UserPromptOf(Get(opts))

\* C10 as amended: the prompt passed to runStreamed is the system-prompt block
\* (present iff a non-empty system prompt is supplied), then the image block
\* (present iff images is non-empty: a header line, then one line per image with
\* a 1-based index), then the user prompt, separated by blank lines.
C10_SystemBlockThenImageBlock ==
    \A i \in {k \in DOMAIN calls : IsRunStreamedCall(calls[k])} :
        calls[i].prompt =
            SystemBlockOf(Get(opts)) \o ImageBlockOf(Get(opts)) \o UserPromptOf(Get(opts))

C10_Witness ==
    /\ {k \in DOMAIN calls : IsRunStreamedCall(calls[k])} # {}
    /\ Get(opts).systemPrompt = Some("You are a helpful assistant")
    /\ Get(opts).images # Undefined
    /\ Len(Get(Get(opts).images)) = 2
    /\ Len(calls[Len(calls)].prompt) = 7
    /\ calls[Len(calls)].prompt[1].kind = "system"
    /\ calls[Len(calls)].prompt[5] =
          [kind |-> "image", n |-> 2, text |-> "https://example.com/b.png"]

-----------------------------------------------------------------------------
(* Properties of retryWithBackoff, checked under SpecRetry. *)

\* The retry policy's rule: the error's status (status, or else statusCode) is in
\* the retryable set, or its message contains a transient-network marker.
RetryableByPolicy(e, codes) ==
    \/ \E c \in codes : (IF e.status # {} THEN e.status ELSE e.statusCode) = {c}
    \/ \E m \in { <<"ECONNRESET">>, <<"ECONNREFUSED">>, <<"ETIMEDOUT">>,
                  <<"fetch", "failed">>, <<"network">>, <<"socket", "hang", "up">> } :
          Includes(e.message, m)

LastErrRetryable == RetryableByPolicy(Get(lastErr), RetryableCodesOf(rOpts))

\* C6: an operation that fails with a retryable error on every attempt is invoked
\* exactly maxRetries + 1 times (once, with no wait and no warning, when
\* maxRetries = 0), and the error thrown is the error of the last attempt.
C6_ExhaustedRetriesThrowLastError ==
    (rpc = "threw" /\ LastErrRetryable)
        => /\ fnCalls = MaxRetriesOf(rOpts) + 1
           /\ rOutcome = lastErr
           /\ Len(waits) = MaxRetriesOf(rOpts)
           /\ Len(warns) = MaxRetriesOf(rOpts)

C6_Witness ==
    /\ rpc = "threw"
    /\ rOpts.maxRetries = Some(2)
    /\ lastErr = Some(EHang)
    /\ fnCalls = 3
    /\ Len(waits) = 2

\* C7: a failed attempt that is not the final one is retried if and only if the
\* error is retryable by the policy; any other error is thrown unchanged at once:
\* when it is the first error, the operation has been invoked exactly once, with
\* no warning and no wait.
C7_RetriesIffRetryable ==
    /\ rpc = "sleep" => (LastErrRetryable /\ attempt < MaxRetriesOf(rOpts))
    /\ rpc = "threw" =>
          /\ rOutcome = lastErr
          /\ ~LastErrRetryable \/ attempt = MaxRetriesOf(rOpts)
    /\ (lastErr # Undefined /\ ~LastErrRetryable) => rpc = "threw"
    /\ (rpc = "threw" /\ attempt = 0) =>
          (fnCalls = 1 /\ warns = <<>> /\ waits = <<>>)

C7_Witness ==
    /\ rpc = "threw"
    /\ lastErr = Some(E401)
    /\ MaxRetriesOf(rOpts) = 3
    /\ fnCalls = 1
    /\ warns = <<>>

\* base, 2 * base, 4 * base, ...: k delays
RECURSIVE Doubling(_, _)
Doubling(base, k) == IF k = 0 THEN <<>> ELSE <<base>> \o Doubling(2 * base, k - 1)

\* C8: an operation that succeeds on attempt k after k - 1 retryable failures is
\* invoked exactly k times (k <= maxRetries + 1), its result is returned, k - 1
\* warnings are logged, the waits are baseDelayMs * 2^0, ..., baseDelayMs * 2^(k-2)
\* in that order, and the operation is not invoked again.
C8_SucceedsOnAttemptK ==
    rpc = "returned" =>
        /\ fnCalls = attempt + 1
        /\ fnCalls <= MaxRetriesOf(rOpts) + 1
        /\ rOutcome = Some("ok")
        /\ Len(warns) = fnCalls - 1
        /\ waits = Doubling(BaseDelayOf(rOpts), fnCalls - 1)
        /\ \A i \in 1..Len(warns) : warns[i].delay = waits[i]
        /\ ~ENABLED NextRetry

C8_Witness ==
    /\ rpc = "returned"
    /\ fnCalls = 4
    /\ waits = <<250, 500, 1000>>
    /\ Len(warns) = 3

-----------------------------------------------------------------------------
(* temperatureToEffort (src/src/index.ts).                                 *)
(*                                                                         *)
(* A temperature is modelled in hundredths: 20 is 0.2, 80 is 0.8.  The     *)
(* function only compares its argument with four literals, so what it      *)
(* returns depends on the order of the argument and those literals alone.  *)

\* How far below 0 and above 1 the temperatures of the model reach, in hundredths.
MaxTempExcess == 10

TemperatureSpace ==
    {Undefined} \cup {Some(t) : t \in (0 - MaxTempExcess)..(100 + MaxTempExcess)}

\* The same with the comparison against 0.2 made strict.
MutTemperatureToEffort(temp) ==
    IF temp = Undefined THEN "medium"
    ELSE IF Get(temp) < 20 THEN "xhigh"
    ELSE IF Get(temp) <= 40 THEN "high"
    ELSE IF Get(temp) <= 60 THEN "medium"
    ELSE IF Get(temp) <= 80 THEN "low"
    ELSE "minimal"

temperatureToEffort(temp) ==
    IF temp = Undefined THEN "medium"
    ELSE IF Get(temp) <= 20 THEN "xhigh"
    ELSE IF Get(temp) <= 40 THEN "high"
    ELSE IF Get(temp) <= 60 THEN "medium"
    ELSE IF Get(temp) <= 80 THEN "low"
    ELSE "minimal"

InitEffort == RetryIdle /\ QueryIdle /\ RealtimeIdle /\ EffortIdle /\ CodexIdle

\* query(), on the startThread path, derives the effort of opts.temperature.
TemperatureToEffortCall ==
    /\ \E t \in TemperatureSpace :
        /\ effPrev' = effCur
        /\ effCur' = Some([temp |-> t, effort |-> temperatureToEffort(t)])
    /\ UNCHANGED <<retryVars, queryVars, realtimeVars, codexVars, abandoned>>

NextEffort == TemperatureToEffortCall

SpecEffort == InitEffort /\ [][NextEffort]_vars

-----------------------------------------------------------------------------
(* Claims about temperatureToEffort (checked under SpecEffort). *)

\* The efforts from the least to the greatest.
EffortRank(e) ==
    CASE e = "minimal" -> 0
      [] e = "low" -> 1
      [] e = "medium" -> 2
      [] e = "high" -> 3
      [] e = "xhigh" -> 4

\* The effort the documented intervals assign to a temperature in hundredths.
EffortByInterval(t) ==
    CASE t <= 20 -> "xhigh"
      [] 20 < t /\ t <= 40 -> "high"
      [] 40 < t /\ t <= 60 -> "medium"
      [] 60 < t /\ t <= 80 -> "low"
      [] t > 80 -> "minimal"

EffortCalls == effPrev \cup effCur

\* C11: the derived effort is xhigh for temp <= 0.2, high for 0.2 < temp <= 0.4,
\* medium for 0.4 < temp <= 0.6, low for 0.6 < temp <= 0.8, minimal for
\* temp > 0.8 and medium for an undefined temperature; the boundaries fall on the
\* <= side; and of two calls the one with the higher temperature never gets the
\* greater effort.
C11_EffortFollowsIntervalsAndIsMonotone ==
    /\ \A c \in EffortCalls :
        c.effort = IF c.temp = Undefined THEN "medium" ELSE EffortByInterval(Get(c.temp))
    /\ \A c \in EffortCalls : \A d \in EffortCalls :
        (c.temp # Undefined /\ d.temp # Undefined /\ Get(c.temp) <= Get(d.temp))
            => EffortRank(c.effort) >= EffortRank(d.effort)

\* Two calls, one on the boundary 0.2 and one just above it.
C11_Witness ==
    /\ effPrev = Some([temp |-> Some(21), effort |-> "high"])
    /\ effCur = Some([temp |-> Some(20), effort |-> "xhigh"])

-----------------------------------------------------------------------------
(* RealtimeClient (src/src/realtime.ts).                                   *)
(*                                                                         *)
(* Every connect() that gets as far as `new WebSocket` adds one entry to   *)
(* conns: the socket it created (readyState, the frames sent on it, the    *)
(* close() calls made on it, the error event and the close event it has    *)
(* dispatched) and the closure shared by the handlers installed on         *)
(* that socket (config, the promise's resolve/reject, the timeout).  The   *)
(* handlers reach the socket through this.ws, as the code does, and so act *)
(* on whichever socket the client holds when they run.  The transport      *)
(* dispatches a socket's events from tasks of their own, never from        *)
(* inside close() or send().                                               *)

\* The most sockets one client creates.
MaxSockets == 2
\* The most inbound messages the sockets deliver altogether.
MaxMessages == 2

\* WebSocket.readyState
CONNECTING == 0
OPEN == 1
CLOSING == 2
CLOSED == 3

\* The close code the client passes to close().
NormalClosure == 1000

ActiveError == "Realtime connection already active. Call disconnect() before reconnecting."
TimeoutError == "Realtime connection timeout (30s)"
ClosedBeforeReadyError(code) ==
    "WebSocket closed before session ready (code " \o ToString(code) \o ")"

(* RealtimeSessionConfig: every field optional; a turnDetection is a record whose  *)
(* field null tells the value null from an object.                                  *)
\* connect({})
ConfigEmpty ==
    [voice |-> Undefined, model |-> Undefined, instructions |-> Undefined,
     inputAudioFormat |-> Undefined, outputAudioFormat |-> Undefined,
     turnDetection |-> Undefined, tools |-> Undefined,
     maxResponseOutputTokens |-> Undefined]

\* connect({ voice: "marin", instructions: "You are helpful",
\*           turnDetection: { type: "server_vad", silenceDurationMs: 500 } })
ConfigVoice ==
    [ConfigEmpty EXCEPT !.voice = Some("marin"),
                        !.instructions = Some("You are helpful"),
                        !.turnDetection =
                            Some([null |-> FALSE, type |-> "server_vad",
                                  silenceDurationMs |-> Some(500),
                                  threshold |-> Undefined])]

ConfigSpace == {ConfigEmpty, ConfigVoice}

(* Texts the client takes apart or escapes (URLs, model names) are the sequences *)
(* of their pieces: the separators "://", "/", "?", "=", ":" and " " and the runs *)
(* of other characters between them.                                             *)
DefaultBaseUrl == <<"wss", "://", "api.openai.com">>
DefaultModel == <<"gpt-realtime">>
InvalidUrlError == "Invalid URL"

\* Truthiness of an optional text: undefined and the empty text are falsy.
TruthyText(o) == o # Undefined /\ o # Some(<<>>)

\* new URL(text), for the schemes whose origin is scheme://host: origin and pathname,
\* or undefined for the TypeError thrown when the text is not a URL.  A URL
\* without a path has the pathname "/".
URLparse(text) ==
    IF Len(text) >= 3 /\ text[1] \in {"ws", "wss", "http", "https"} /\ text[2] = "://"
          /\ (Len(text) > 3 => text[4] = "/")
    THEN Some([origin |-> SubSeq(text, 1, 3),
               pathname |-> IF Len(text) = 3 THEN <<"/">> ELSE SubSeq(text, 4, Len(text))])
    ELSE Undefined

\* encodeURIComponent(text): the separators are escaped, the other pieces kept.
encodeURIComponent(text) ==
    [k \in DOMAIN text |->
        CASE text[k] = ":" -> "%3A"
          [] text[k] = "/" -> "%2F"
          [] text[k] = " " -> "%20"
          [] text[k] = "?" -> "%3F"
          [] text[k] = "=" -> "%3D"
          [] OTHER -> text[k]]

\* The same keeping the gateway's suffix.
MutRealtimePath(pathname) ==
    LET rawPath == IF pathname # <<>> /\ pathname # <<"/">> THEN pathname ELSE <<"/", "v1">>
        trimmed ==
            IF rawPath[Len(rawPath)] = "/"
            THEN SubSeq(rawPath, 1, Len(rawPath) - 1)
            ELSE rawPath
    IN trimmed \o <<"/", "realtime">>

\* realtimePath, from parsedBase.pathname
RealtimePath(pathname) ==
    LET rawPath == IF pathname # <<>> /\ pathname # <<"/">> THEN pathname ELSE <<"/", "v1">>
        n == Len(rawPath)
        \* rawPath.replace(/\/openai\/?$/, "")
        basePath ==
            IF n >= 2 /\ rawPath[n - 1] = "/" /\ rawPath[n] = "openai"
            THEN SubSeq(rawPath, 1, n - 2)
            ELSE IF n >= 3 /\ rawPath[n - 2] = "/" /\ rawPath[n - 1] = "openai"
                    /\ rawPath[n] = "/"
            THEN SubSeq(rawPath, 1, n - 3)
            ELSE rawPath
        \* basePath.replace(/\/$/, "")
        trimmed ==
            IF basePath # <<>> /\ basePath[Len(basePath)] = "/"
            THEN SubSeq(basePath, 1, Len(basePath) - 1)
            ELSE basePath
    IN trimmed \o <<"/", "realtime">>

\* The url connect(config) hands to new WebSocket, or undefined when new URL throws.
RealtimeUrl(clientOpts, config) ==
    LET model == IF TruthyText(config.model) THEN Get(config.model) ELSE DefaultModel
        baseUrl == IF TruthyText(clientOpts.baseUrl) THEN Get(clientOpts.baseUrl)
                   ELSE DefaultBaseUrl
        parsedBase == URLparse(baseUrl)
    IN IF parsedBase = Undefined THEN Undefined
       ELSE Some(Get(parsedBase).origin \o RealtimePath(Get(parsedBase).pathname)
                   \o <<"?", "model", "=">> \o encodeURIComponent(model))

\* The same with the caller's credential first.
MutBearerToken(cred, clientOpts) ==
    IF cred # "" THEN cred
    ELSE IF TruthyStr(clientOpts.tenantToken) THEN Get(clientOpts.tenantToken) ELSE cred

\* this.options.tenantToken || this.credential
BearerToken(cred, clientOpts) ==
    IF TruthyStr(clientOpts.tenantToken) THEN Get(clientOpts.tenantToken) ELSE cred

(* JSON values, as JSON.parse returns them. *)
JStr(s) == [t |-> "string", v |-> s]
JObj(fields) == [t |-> "object", f |-> fields]

\* o[name], undefined when the key is absent
Field(o, name) == IF name \in DOMAIN o.f THEN Some(o.f[name]) ELSE Undefined
\* typeof x === "string", on an optional value
IsString(x) == x # Undefined /\ Get(x).t = "string"
\* typeof x === "string" ? x : dflt
StringOr(x, dflt) == IF IsString(x) THEN Get(x).v ELSE dflt

\* JSON.parse(ev.data): ev.data is a text and, when the text is JSON, the value it
\* denotes; the result is that value, or undefined for the SyntaxError thrown.
JSONparse(data) == data.json

(* Base64, on sequences of characters and of bytes. *)
Base64Alphabet ==
    <<"A","B","C","D","E","F","G","H","I","J","K","L","M","N","O","P",
      "Q","R","S","T","U","V","W","X","Y","Z","a","b","c","d","e","f",
      "g","h","i","j","k","l","m","n","o","p","q","r","s","t","u","v",
      "w","x","y","z","0","1","2","3","4","5","6","7","8","9","+","/">>

\* The six bits a character stands for.
Sextet(ch) == (CHOOSE k \in DOMAIN Base64Alphabet : Base64Alphabet[k] = ch) - 1

\* The characters the decoder uses: those up to the first "=", the others skipped.
RECURSIVE Base64Payload(_)
Base64Payload(chars) ==
    IF chars = <<>> \/ Head(chars) = "=" THEN <<>>
    ELSE IF \E k \in DOMAIN Base64Alphabet : Base64Alphabet[k] = Head(chars)
         THEN <<Head(chars)>> \o Base64Payload(Tail(chars))
    ELSE Base64Payload(Tail(chars))

\* Buffer.from(text, "base64") is DecodeSextets(Base64Payload(text)): four
\* characters give three bytes, three give two, two give one.
RECURSIVE DecodeSextets(_)
DecodeSextets(cs) ==
    IF Len(cs) < 2 THEN <<>>
    ELSE LET a == Sextet(cs[1])
             b == Sextet(cs[2])
             byte1 == a * 4 + b \div 16
         IN IF Len(cs) = 2 THEN <<byte1>>
            ELSE LET c == Sextet(cs[3])
                     byte2 == (b % 16) * 16 + c \div 4
                 IN IF Len(cs) = 3 THEN <<byte1, byte2>>
                    ELSE LET d == Sextet(cs[4])
                             byte3 == (c % 4) * 64 + d
                         IN <<byte1, byte2, byte3>>
                                \o DecodeSextets(SubSeq(cs, 5, Len(cs)))

\* The messages the sockets deliver, as ev.data: session.created, a text delta,
\* an object without a type, a number, and a text that is not JSON.
ServerMessages ==
    <<[json |-> Some(JObj([type |-> JStr("session.created"),
                           session |-> JObj([id |-> JStr("sess-1")])]))],
      [json |-> Some(JObj([type |-> JStr("response.text.delta"), delta |-> JStr("Hi")]))],
      [json |-> Some(JObj([session |-> JObj([id |-> JStr("sess-1")])]))],
      [json |-> Some([t |-> "number", v |-> 42])],
      [json |-> Undefined]>>

(* The error and close events a socket dispatches. *)
ErrorEvents == {[message |-> Undefined], [message |-> Some("connect ECONNREFUSED")]}
CloseEvents == {[code |-> 1006, reason |-> ""], [code |-> 1000, reason |-> "Normal closure"]}

(* The state the client's methods and handlers read and write. *)
RealtimeState ==
    [ws |-> ws, conns |-> conns, emitted |-> emitted,
     credential |-> credential, options |-> options,
     listeners |-> listeners, received |-> received]

\* The socket, and the handlers' closure, of a connect() that has just run `new WebSocket`.
NewConn(config, url, token) ==
    [config |-> config, url |-> url, headers |-> [Authorization |-> "Bearer " \o token],
     readyState |-> CONNECTING, sent |-> <<>>, closeCalls |-> <<>>,
     errorEvent |-> Undefined, closeEvent |-> Undefined,
     promise |-> "pending", rejection |-> Undefined, timer |-> "armed"]

clearTimeout(st, i) ==
    [st EXCEPT !.conns[i].timer = IF @ = "armed" THEN "cleared" ELSE @]

\* resolve and reject of the promise of connect(): the first to be called settles it.
resolve(st, i) ==
    IF st.conns[i].promise = "pending"
    THEN [st EXCEPT !.conns[i].promise = "resolved"]
    ELSE st

reject(st, i, message) ==
    IF st.conns[i].promise = "pending"
    THEN [st EXCEPT !.conns[i].promise = "rejected", !.conns[i].rejection = Some(message)]
    ELSE st

\* WebSocket.close(code, reason): starts the closing handshake of a socket that is
\* CONNECTING or OPEN, and does nothing to one that is CLOSING or CLOSED.
close(st, j, code, reason) ==
    [st EXCEPT !.conns[j].closeCalls = Append(@, [code |-> code, reason |-> reason]),
               !.conns[j].readyState = IF @ \in {CONNECTING, OPEN} THEN CLOSING ELSE @]

\* WebSocket.send(JSON.stringify(frame))
send(st, j, frame) == [st EXCEPT !.conns[j].sent = Append(@, frame)]

\* The same handing the listeners the latest event before the earlier ones.
MutEmitNewestFirst(st, i, event) ==
    [st EXCEPT !.emitted = <<[from |-> i, event |-> event]>> \o @]

\* The callbacks that throw when they are called.
Throws(cb) == cb = "boom"

\* The same without the try block: the first listener that throws ends the loop.
RECURSIVE MutCallListeners(_, _)
MutCallListeners(ls, event) ==
    IF ls = <<>> THEN <<>>
    ELSE LET call == [reg |-> Head(ls).reg, cb |-> Head(ls).cb, event |-> event]
         IN IF Throws(Head(ls).cb) THEN <<call>>
            ELSE <<call>> \o MutCallListeners(Tail(ls), event)

\* The loop of emit(): every listener is called in turn; what one throws is
\* caught and logged, and the loop goes on.
RECURSIVE CallListeners(_, _)
CallListeners(ls, event) ==
    IF ls = <<>> THEN <<>>
    ELSE LET call == [reg |-> Head(ls).reg, cb |-> Head(ls).cb, event |-> event]
         IN IF Throws(Head(ls).cb) THEN <<call>> \o CallListeners(Tail(ls), event)
            ELSE <<call>> \o CallListeners(Tail(ls), event)

\* emit() with a loop that the first throwing listener ends.
MutEmitUncaught(st, i, event) ==
    [st EXCEPT !.emitted = Append(@, [from |-> i, event |-> event]),
               !.received = @ \o MutCallListeners(st.listeners, event)]

\* emit(event); `from` is not part of the event: it records the socket whose handler emitted it.
emit(st, i, event) ==
    [st EXCEPT !.emitted = Append(@, [from |-> i, event |-> event]),
               !.received = @ \o CallListeners(st.listeners, event)]

\* The session object of the session.update frame.
SessionOf(config) ==
    LET input ==
            IF TruthyStr(config.inputAudioFormat) \/ config.turnDetection # Undefined
            THEN Some([format |-> IF TruthyStr(config.inputAudioFormat)
                                  THEN config.inputAudioFormat ELSE Undefined,
                       turn_detection |->
                           IF config.turnDetection # Undefined
                           THEN LET td == Get(config.turnDetection)
                                IN Some([null |-> td.null, type |-> td.type,
                                         silence_duration_ms |-> td.silenceDurationMs,
                                         threshold |-> td.threshold])
                           ELSE Undefined])
            ELSE Undefined
        output ==
            IF TruthyStr(config.outputAudioFormat)
            THEN Some([format |-> config.outputAudioFormat])
            ELSE Undefined
    IN [voice |-> IF TruthyStr(config.voice) THEN config.voice ELSE Undefined,
        instructions |-> IF TruthyStr(config.instructions) THEN config.instructions
                         ELSE Undefined,
        max_response_output_tokens |-> config.maxResponseOutputTokens,
        audio |-> IF input = Undefined /\ output = Undefined THEN Undefined
                  ELSE Some([input |-> input, output |-> output]),
        tools |-> IF config.tools # Undefined /\ Len(Get(config.tools)) > 0
                  THEN config.tools ELSE Undefined]

SessionUpdateFrame(config) == [type |-> "session.update", session |-> SessionOf(config)]

\* sendSessionUpdate(config), called by the handler of socket i with its config.
sendSessionUpdate(st, i) ==
    IF st.ws = Undefined \/ st.conns[Get(st.ws)].readyState # OPEN THEN st
    ELSE send(st, Get(st.ws), SessionUpdateFrame(st.conns[i].config))

\* handleServerEvent(msg, config, resolve, timeout), called by the handler of socket i.
handleServerEvent(st, msg, i) ==
    IF msg.t # "object" \/ "type" \notin DOMAIN msg.f THEN st
    ELSE
    LET event == msg
        type == Field(event, "type")
        Is(name) == IsString(type) /\ Get(type).v = name
        objectOf(x) == IF x # Undefined /\ Get(x).t = "object" THEN x ELSE Undefined
        fieldOf(o, name) == IF o = Undefined THEN Undefined ELSE Field(Get(o), name)
    IN
    IF Is("session.created") THEN
        LET session == objectOf(Field(event, "session"))
            sessionId == StringOr(fieldOf(session, "id"), "")
            cleared == clearTimeout(st, i)
            announced == emit(cleared, i, [type |-> "session.created",
                                          sessionId |-> sessionId])
            configured == sendSessionUpdate(announced, i)
        IN resolve(configured, i)
    ELSE IF Is("response.audio.delta") THEN
        IF IsString(Field(event, "delta"))
        THEN emit(st, i, [type |-> "audio",
                          data |-> DecodeSextets(Base64Payload(Get(Field(event, "delta")).v))])
        ELSE st
    ELSE IF Is("response.audio_transcript.done") THEN
        IF IsString(Field(event, "transcript"))
        THEN emit(st, i, [type |-> "transcript",
                          text |-> Get(Field(event, "transcript")).v,
                          role |-> "assistant"])
        ELSE st
    ELSE IF Is("conversation.item.input_audio_transcription.completed") THEN
        IF IsString(Field(event, "transcript"))
        THEN emit(st, i, [type |-> "transcript",
                          text |-> Get(Field(event, "transcript")).v,
                          role |-> "user"])
        ELSE st
    ELSE IF Is("response.text.delta") THEN
        IF IsString(Field(event, "delta"))
        THEN emit(st, i, [type |-> "text", text |-> Get(Field(event, "delta")).v])
        ELSE st
    ELSE IF Is("response.function_call_arguments.done") THEN
        emit(st, i, [type |-> "tool_call",
                     callId |-> StringOr(Field(event, "call_id"), ""),
                     name |-> StringOr(Field(event, "name"), ""),
                     arguments |-> StringOr(Field(event, "arguments"), "")])
    ELSE IF Is("error") THEN
        LET err == objectOf(Field(event, "error"))
            errMsg == StringOr(fieldOf(err, "message"), "Unknown realtime error")
            errCode == IF IsString(fieldOf(err, "code"))
                       THEN Some(Get(fieldOf(err, "code")).v) ELSE Undefined
        IN emit(st, i, [type |-> "error", message |-> errMsg, code |-> errCode])
    ELSE st

\* The same closing the socket held when a message does not parse.
MutOnmessageClosesOnGarbage(st, i, data) ==
    LET msg == JSONparse(data)
    IN IF msg = Undefined
       THEN IF st.ws # Undefined
            THEN close(st, Get(st.ws), NormalClosure, "Protocol error")
            ELSE st
       ELSE handleServerEvent(st, Get(msg), i)

\* ws.onmessage of socket i: a message that does not parse is logged and dropped.
onmessage(st, i, data) ==
    LET msg == JSONparse(data)
    IN IF msg = Undefined THEN st ELSE handleServerEvent(st, Get(msg), i)

\* The same emitting the error event only when a connect() is pending.
MutOnerrorQuietAfterHandshake(st, i, ev) ==
    LET message == IF TruthyStr(ev.message) THEN Get(ev.message) ELSE "WebSocket error"
        cleared == clearTimeout(st, i)
        announced == IF st.conns[i].promise = "pending"
                     THEN emit(cleared, i, [type |-> "error", message |-> message,
                                            code |-> Undefined])
                     ELSE cleared
        dropped == [announced EXCEPT !.ws = Undefined]
    IN reject(dropped, i, message)

\* ws.onerror of socket i
onerror(st, i, ev) ==
    LET message == IF TruthyStr(ev.message) THEN Get(ev.message) ELSE "WebSocket error"
        cleared == clearTimeout(st, i)
        announced == emit(cleared, i, [type |-> "error", message |-> message,
                                       code |-> Undefined])
        dropped == [announced EXCEPT !.ws = Undefined]
    IN reject(dropped, i, message)

\* The same emitting closed only when the closure rejected the connect().
MutOncloseQuietAfterHandshake(st, i, ev) ==
    LET cleared == clearTimeout(st, i)
        dropped == [cleared EXCEPT !.ws = Undefined]
        rejected == reject(dropped, i, ClosedBeforeReadyError(ev.code))
    IN IF dropped.conns[i].promise = "pending"
       THEN emit(rejected, i, [type |-> "closed",
                               reason |-> IF ev.reason # "" THEN ev.reason
                                          ELSE "Code " \o ToString(ev.code)])
       ELSE rejected

\* The same without the call of reject.
MutOncloseNoReject(st, i, ev) ==
    LET cleared == clearTimeout(st, i)
        dropped == [cleared EXCEPT !.ws = Undefined]
    IN emit(dropped, i, [type |-> "closed",
                         reason |-> IF ev.reason # "" THEN ev.reason
                                    ELSE "Code " \o ToString(ev.code)])

\* ws.onclose of socket i
onclose(st, i, ev) ==
    LET cleared == clearTimeout(st, i)
        dropped == [cleared EXCEPT !.ws = Undefined]
        rejected == reject(dropped, i, ClosedBeforeReadyError(ev.code))
    IN emit(rejected, i, [type |-> "closed",
                          reason |-> IF ev.reason # "" THEN ev.reason
                                     ELSE "Code " \o ToString(ev.code)])

\* The same without the call of reject.
MutOntimeoutNoReject(st, i) ==
    LET fired == [st EXCEPT !.conns[i].timer = "fired"]
        closed == IF fired.ws # Undefined
                  THEN close(fired, Get(fired.ws), NormalClosure, "Connection timeout")
                  ELSE fired
    IN [closed EXCEPT !.ws = Undefined]

\* The callback of the setTimeout of the connect() that created socket i.
ontimeout(st, i) ==
    LET fired == [st EXCEPT !.conns[i].timer = "fired"]
        closed == IF fired.ws # Undefined
                  THEN close(fired, Get(fired.ws), NormalClosure, "Connection timeout")
                  ELSE fired
        dropped == [closed EXCEPT !.ws = Undefined]
    IN reject(dropped, i, TimeoutError)

\* The same with only an OPEN socket counting as active.
MutIsActive(st) ==
    st.ws # Undefined /\ st.conns[Get(st.ws)].readyState = OPEN

\* The guard of connect(): the client holds a socket that is CONNECTING or OPEN.
IsActive(st) ==
    st.ws # Undefined /\ st.conns[Get(st.ws)].readyState \in {CONNECTING, OPEN}

\* connect(config) past its guard: the socket is created, held, and its timeout armed.
connect(st, config) ==
    [st EXCEPT !.conns = Append(@, NewConn(config, Get(RealtimeUrl(st.options, config)),
                                           BearerToken(st.credential, st.options))),
               !.ws = Some(Len(st.conns) + 1)]

\* The same keeping the reference to the socket it has closed.
MutDisconnectKeepsSocket(st) ==
    IF st.ws # Undefined
    THEN close(st, Get(st.ws), NormalClosure, "Client disconnect")
    ELSE st

\* disconnect()
disconnect(st) ==
    IF st.ws # Undefined
    THEN [close(st, Get(st.ws), NormalClosure, "Client disconnect") EXCEPT !.ws = Undefined]
    ELSE st

InitRealtime == RetryIdle /\ QueryIdle /\ EffortIdle /\ RealtimeIdle /\ CodexIdle

Becomes(st) ==
    /\ ws' = st.ws /\ conns' = st.conns /\ emitted' = st.emitted
    /\ received' = st.received

\* The caller calls connect(config), with a config out of configs; the client
\* creates at most maxSockets sockets.
ConnectWith(configs, maxSockets) ==
    /\ \E config \in configs :
        IF IsActive(RealtimeState)
        THEN /\ lastConnectError' = Some(ActiveError)
             /\ UNCHANGED <<ws, conns, emitted, received>>
        ELSE IF RealtimeUrl(options, config) = Undefined
        THEN /\ lastConnectError' = Some(InvalidUrlError)
             /\ UNCHANGED <<ws, conns, emitted, received>>
        ELSE /\ Len(conns) < maxSockets
             /\ Becomes(connect(RealtimeState, config))
             /\ lastConnectError' = Undefined
    /\ UNCHANGED <<nMsgs, credential, options, retryVars, queryVars, effortVars, codexVars, abandoned, subscriptionVars>>

\* The connection of socket i fails, with an error event out of events: the socket
\* is CLOSED when the event is dispatched.
SocketErrorWith(events) ==
    /\ \E i \in DOMAIN conns : \E ev \in events :
        /\ conns[i].errorEvent = Undefined /\ conns[i].closeEvent = Undefined
        /\ LET failed == [RealtimeState EXCEPT !.conns[i].readyState = CLOSED,
                                               !.conns[i].errorEvent = Some(ev)]
           IN Becomes(onerror(failed, i, ev))
    /\ UNCHANGED <<nMsgs, lastConnectError, credential, options, retryVars, queryVars, effortVars, codexVars, abandoned, subscriptionVars>>

\* The connection of socket i is closed, with a close event out of events, which
\* is dispatched once.
SocketCloseWith(events) ==
    /\ \E i \in DOMAIN conns : \E ev \in events :
        /\ conns[i].closeEvent = Undefined /\ conns[i].readyState # CONNECTING
        /\ LET gone == [RealtimeState EXCEPT !.conns[i].readyState = CLOSED,
                                             !.conns[i].closeEvent = Some(ev)]
           IN Becomes(onclose(gone, i, ev))
    /\ UNCHANGED <<nMsgs, lastConnectError, credential, options, retryVars, queryVars, effortVars, codexVars, abandoned, subscriptionVars>>

Connect == ConnectWith(ConfigSpace, MaxSockets)

\* The caller calls disconnect().
Disconnect ==
    /\ Becomes(disconnect(RealtimeState))
    /\ UNCHANGED <<nMsgs, lastConnectError, credential, options, retryVars, queryVars, effortVars, codexVars, abandoned, subscriptionVars>>

\* Thirty seconds have passed since the connect() that created socket i.
HandshakeTimeout ==
    /\ \E i \in DOMAIN conns :
        /\ conns[i].timer = "armed"
        /\ Becomes(ontimeout(RealtimeState, i))
    /\ UNCHANGED <<nMsgs, lastConnectError, credential, options, retryVars, queryVars, effortVars, codexVars, abandoned, subscriptionVars>>

\* The opening handshake of socket i completes; onopen only logs.
SocketOpens ==
    /\ \E i \in DOMAIN conns :
        /\ conns[i].readyState = CONNECTING
        /\ conns' = [conns EXCEPT ![i].readyState = OPEN]
    /\ UNCHANGED <<ws, emitted, received, nMsgs, lastConnectError, credential, options, retryVars, queryVars, effortVars, codexVars, abandoned, subscriptionVars>>

\* Socket i, open, delivers a message.
SocketMessage ==
    /\ nMsgs < MaxMessages
    /\ \E i \in DOMAIN conns : \E k \in DOMAIN ServerMessages :
        /\ conns[i].readyState = OPEN
        /\ Becomes(onmessage(RealtimeState, i, ServerMessages[k]))
    /\ nMsgs' = nMsgs + 1
    /\ UNCHANGED <<lastConnectError, credential, options, retryVars, queryVars, effortVars, codexVars, abandoned, subscriptionVars>>

\* The server starts the closing handshake of socket i.
SocketBeginsClosing ==
    /\ \E i \in DOMAIN conns :
        /\ conns[i].readyState = OPEN
        /\ conns' = [conns EXCEPT ![i].readyState = CLOSING]
    /\ UNCHANGED <<ws, emitted, received, nMsgs, lastConnectError, credential, options, retryVars, queryVars, effortVars, codexVars, abandoned, subscriptionVars>>

SocketError == SocketErrorWith(ErrorEvents)

SocketClose == SocketCloseWith(CloseEvents)

NextRealtime ==
    \/ Connect
    \/ Disconnect
    \/ HandshakeTimeout
    \/ SocketOpens
    \/ SocketMessage
    \/ SocketBeginsClosing
    \/ SocketError
    \/ SocketClose

SpecRealtime == InitRealtime /\ [][NextRealtime]_vars

-----------------------------------------------------------------------------
(* Reconnection: connect, disconnect, the handshake timeout and the        *)
(* sockets' open, error and close events over more sockets, with one       *)
(* config and one payload per event and without inbound messages.          *)

\* The most sockets one client creates when it reconnects.
MaxReconnectSockets == 3

ReconnectConnect == ConnectWith({ConfigEmpty}, MaxReconnectSockets)

ReconnectSocketError == SocketErrorWith({[message |-> Undefined]})

ReconnectSocketClose == SocketCloseWith({[code |-> 1006, reason |-> ""]})

NextReconnect ==
    \/ ReconnectConnect
    \/ Disconnect
    \/ HandshakeTimeout
    \/ SocketOpens
    \/ ReconnectSocketError
    \/ ReconnectSocketClose

SpecReconnect == InitRealtime /\ [][NextReconnect]_vars

-----------------------------------------------------------------------------
(* Claims about the RealtimeClient (checked under SpecRealtime unless said *)
(* otherwise).                                                             *)

\* The sockets that are CONNECTING or OPEN.
LiveSockets == {i \in DOMAIN conns : conns[i].readyState \in {CONNECTING, OPEN}}

\* The events emitted by the handlers of socket i that have the given type, in order.
EmittedBy(i, type) ==
    SelectSeq(emitted, LAMBDA e : e.from = i /\ e.event.type = type)

\* C12: connect() called while the socket the client holds is CONNECTING or OPEN
\* rejects with the "connection already active" error, creates no socket, arms no
\* timer, and leaves the held socket, every connection's promise and timer and
\* the events emitted as they were.
C12_ActiveConnectRejectsAndChangesNothing ==
    [][(Connect /\ ws # Undefined /\ Get(ws) \in LiveSockets)
         => /\ lastConnectError' = Some(ActiveError)
            /\ UNCHANGED <<ws, conns, emitted>>]_vars

\* A connect() has been rejected while the first socket is still connecting, its
\* promise pending and its timer armed.
C12_Witness ==
    /\ lastConnectError = Some(ActiveError)
    /\ Len(conns) = 1 /\ ws = Some(1)
    /\ conns[1].readyState = CONNECTING
    /\ conns[1].promise = "pending" /\ conns[1].timer = "armed"

\* C13: when the handshake timeout of a connect() has fired, that connect() is
\* rejected with the timeout error and the socket it created is no longer
\* CONNECTING or OPEN.
C13_TimeoutRejectsAndClosesSocket ==
    \A i \in DOMAIN conns :
        conns[i].timer = "fired"
            => /\ conns[i].promise = "rejected"
               /\ conns[i].rejection = Some(TimeoutError)
               /\ i \notin LiveSockets

\* C14: whenever a connect() has resolved, a session.update frame built from its
\* config has been sent on the socket it created.
C14_ResolvedAfterSessionUpdate ==
    \A i \in DOMAIN conns :
        conns[i].promise = "resolved"
            => \E k \in DOMAIN conns[i].sent :
                   conns[i].sent[k] = SessionUpdateFrame(conns[i].config)

\* C15: once a socket has dispatched its error or its close event, the connect()
\* that created it is settled; and it is rejected unless session.created had been
\* received on that socket, which alone resolves it.
C15_ErrorOrCloseBeforeHandshakeRejects ==
    \A i \in DOMAIN conns :
        /\ (conns[i].errorEvent # Undefined \/ conns[i].closeEvent # Undefined)
               => conns[i].promise # "pending"
        /\ ((conns[i].errorEvent # Undefined \/ conns[i].closeEvent # Undefined)
                /\ EmittedBy(i, "session.created") = <<>>)
               => conns[i].promise = "rejected"
        /\ conns[i].promise = "resolved" => EmittedBy(i, "session.created") # <<>>

\* The caller disconnected before the socket ever opened, the socket then closed,
\* and the connect() was rejected for the closure.
C15_Witness ==
    /\ Len(conns) = 1
    /\ conns[1].closeCalls = <<[code |-> NormalClosure, reason |-> "Client disconnect"]>>
    /\ conns[1].closeEvent = Some([code |-> 1006, reason |-> ""])
    /\ conns[1].errorEvent = Undefined
    /\ emitted = <<[from |-> 1, event |-> [type |-> "closed", reason |-> "Code 1006"]]>>
    /\ conns[1].promise = "rejected"
    /\ conns[1].rejection = Some(ClosedBeforeReadyError(1006))

\* The close() calls disconnect() has made on socket i.
DisconnectCloses(i) ==
    SelectSeq(conns[i].closeCalls, LAMBDA c : c.reason = "Client disconnect")

\* C16: a disconnect() step, from any state, leaves the client without a socket,
\* calls close() on the held socket only and touches no other socket; a
\* disconnect() on a client that holds no socket issues no close and changes
\* nothing; no socket is ever closed twice by disconnect().
C16_DisconnectIsIdempotent ==
    [][Disconnect
         => /\ ws' = Undefined
            /\ \A i \in DOMAIN conns : i \notin ws => conns'[i] = conns[i]
            /\ \A i \in DOMAIN conns :
                   i \in ws => /\ conns'[i].closeCalls =
                                     Append(conns[i].closeCalls,
                                            [code |-> NormalClosure,
                                             reason |-> "Client disconnect"])
                               /\ conns'[i].readyState \in {CLOSING, CLOSED}
                               /\ Len(DisconnectCloses(i)) = 0
            /\ emitted' = emitted
            /\ ws = Undefined => conns' = conns]_vars

\* disconnect() has closed an open socket whose handshake was complete, and the
\* client holds nothing.
C16_Witness ==
    /\ ws = Undefined
    /\ Len(conns) = 1
    /\ conns[1].promise = "resolved"
    /\ conns[1].readyState = CLOSING
    /\ conns[1].closeCalls = <<[code |-> NormalClosure, reason |-> "Client disconnect"]>>
    /\ conns[1].closeEvent = Undefined

-----------------------------------------------------------------------------
(* Claims about reconnection (checked under SpecReconnect). *)

\* C17: at most one of the sockets the client has created is CONNECTING or OPEN.
C17_AtMostOneLiveSocket == Cardinality(LiveSockets) <= 1

-----------------------------------------------------------------------------
(* Claims about the RealtimeClient, continued (checked under SpecRealtime). *)

\* The reason a closed event carries for a close event: the event's reason, or
\* its code when the reason is empty.
ClosedReasonFor(ev) == IF ev.reason = "" THEN "Code " \o ToString(ev.code) ELSE ev.reason

\* C18: a socket that has not dispatched its close event has caused no closed
\* event; one that has, has caused exactly one, carrying the close reason, or the
\* close code when there is no reason; whether the handshake had completed, and
\* whoever started the closure.
C18_OneClosedEventPerClosure ==
    \A i \in DOMAIN conns :
        IF conns[i].closeEvent = Undefined
        THEN EmittedBy(i, "closed") = <<>>
        ELSE /\ Len(EmittedBy(i, "closed")) = 1
             /\ EmittedBy(i, "closed")[1].event.reason
                    = ClosedReasonFor(Get(conns[i].closeEvent))

\* Two closures: one by the handshake timeout before the handshake, closed
\* without a reason; one by the server after it, closed with a reason.
C18_Witness ==
    /\ Len(conns) = 2
    /\ conns[1].timer = "fired"
    /\ conns[1].closeCalls = <<[code |-> NormalClosure, reason |-> "Connection timeout"]>>
    /\ conns[1].closeEvent = Some([code |-> 1006, reason |-> ""])
    /\ conns[2].promise = "resolved"
    /\ conns[2].closeCalls = <<>>
    /\ conns[2].closeEvent = Some([code |-> 1000, reason |-> "Normal closure"])
    /\ Len(EmittedBy(1, "closed")) = 1 /\ Len(EmittedBy(2, "closed")) = 1

\* The message an error event puts in the canonical error event.
ErrorMessageFor(ev) == IF ev.message \in {Undefined, Some("")} THEN "WebSocket error"
                       ELSE Get(ev.message)

\* C19: a socket that has dispatched an error event has caused exactly one
\* canonical error event, with that event's message, and one that has not, none;
\* after the error the connect() is no longer pending; and a step in which a
\* socket dispatches its error event leaves a connect() that was resolved
\* resolved and rejects one that was pending with the error's message.
C19_SocketErrorEmitsOnceAndRejectsPending ==
    [][\A i \in DOMAIN conns' :
         /\ IF conns'[i].errorEvent = Undefined
            THEN SelectSeq(emitted', LAMBDA e : e.from = i /\ e.event.type = "error") = <<>>
            ELSE /\ SelectSeq(emitted', LAMBDA e : e.from = i /\ e.event.type = "error")
                        = <<[from |-> i,
                             event |-> [type |-> "error",
                                        message |-> ErrorMessageFor(Get(conns'[i].errorEvent)),
                                        code |-> Undefined]]>>
                 /\ conns'[i].promise # "pending"
         /\ (i \in DOMAIN conns /\ conns[i].errorEvent = Undefined
               /\ conns'[i].errorEvent # Undefined)
              => /\ conns[i].promise = "resolved" => conns'[i].promise = "resolved"
                 /\ conns[i].promise = "pending"
                      => /\ conns'[i].promise = "rejected"
                         /\ conns'[i].rejection
                                = Some(ErrorMessageFor(Get(conns'[i].errorEvent)))
                 /\ Len(emitted') = Len(emitted) + 1]_vars

\* An error on a socket whose handshake had completed: the error event is
\* emitted after session.created and the connect() is still resolved.
C19_Witness ==
    /\ Len(conns) = 1
    /\ conns[1].errorEvent = Some([message |-> Some("connect ECONNREFUSED")])
    /\ conns[1].promise = "resolved"
    /\ Len(emitted) = 2
    /\ emitted[1].event.type = "session.created"
    /\ emitted[2].event = [type |-> "error", message |-> "connect ECONNREFUSED",
                           code |-> Undefined]

\* An inbound text that is not JSON, or whose value is not an object with a type.
IsMalformed(data) ==
    \/ data.json = Undefined
    \/ Get(data.json).t # "object"
    \/ "type" \notin DOMAIN Get(data.json).f

\* Socket i delivers the k-th of the server's messages.
Delivers(i, k) ==
    /\ nMsgs < MaxMessages
    /\ conns[i].readyState = OPEN
    /\ Becomes(onmessage(RealtimeState, i, ServerMessages[k]))
    /\ nMsgs' = nMsgs + 1

\* C20: the delivery of a malformed message changes nothing: no event is emitted,
\* no socket closed, no promise settled, no timer cleared, the client holds the
\* socket it held; and a text delta delivered after any message is emitted.
C20_MalformedMessageIsDropped ==
    [][\A i \in DOMAIN conns : \A k \in DOMAIN ServerMessages :
         /\ (IsMalformed(ServerMessages[k]) /\ Delivers(i, k))
              => UNCHANGED <<ws, conns, emitted>>
         /\ (nMsgs > 0 /\ Delivers(i, k)
               /\ ServerMessages[k].json
                    = Some(JObj([type |-> JStr("response.text.delta"), delta |-> JStr("Hi")])))
              => /\ emitted' = Append(emitted, [from |-> i,
                                                event |-> [type |-> "text", text |-> "Hi"]])
                 /\ UNCHANGED <<ws, conns>>]_vars

\* Two messages were delivered during the handshake and one was dropped: the text
\* delta is the only event, the socket is open, the connect() pending, the timer armed.
C20_Witness ==
    /\ nMsgs = 2
    /\ emitted = <<[from |-> 1, event |-> [type |-> "text", text |-> "Hi"]]>>
    /\ Len(conns) = 1 /\ ws = Some(1)
    /\ conns[1].readyState = OPEN
    /\ conns[1].promise = "pending" /\ conns[1].timer = "armed"
    /\ conns[1].closeCalls = <<>>

-----------------------------------------------------------------------------
(* Outbound operations of the RealtimeClient: sendAudio, commitAudio and   *)
(* sendFunctionResult, over the connections' life cycle, with one config   *)
(* and one payload per socket event and without inbound messages.          *)

\* The most sockets one client creates while it sends.
MaxSendSockets == 1
\* The most frames the client sends altogether.
MaxFrames == 2

\* pcmData.toString("base64"): three bytes give four characters, two give three
\* and one "=", one gives two and "==".
RECURSIVE BufferToBase64(_)
BufferToBase64(bytes) ==
    IF bytes = <<>> THEN <<>>
    ELSE LET n == Len(bytes)
             b1 == bytes[1]
             b2 == IF n >= 2 THEN bytes[2] ELSE 0
             b3 == IF n >= 3 THEN bytes[3] ELSE 0
             c1 == Base64Alphabet[b1 \div 4 + 1]
             c2 == Base64Alphabet[(b1 % 4) * 16 + b2 \div 16 + 1]
             c3 == Base64Alphabet[(b2 % 16) * 4 + b3 \div 64 + 1]
             c4 == Base64Alphabet[(b3 % 64) + 1]
         IN IF n = 1 THEN <<c1, c2, "=", "=">>
            ELSE IF n = 2 THEN <<c1, c2, c3, "=">>
            ELSE <<c1, c2, c3, c4>> \o BufferToBase64(SubSeq(bytes, 4, n))

\* The buffers the caller passes to sendAudio.
AudioChunks == {<<>>, <<77, 97>>, <<77, 97, 110>>, <<255, 0, 128, 63>>}

\* The (callId, output) pairs the caller passes to sendFunctionResult.
FunctionResults == {[callId |-> "call-1", output |-> "{\"temp\": 72}"]}

AudioAppendFrame(pcmData) ==
    [type |-> "input_audio_buffer.append", audio |-> BufferToBase64(pcmData)]
AudioCommitFrame == [type |-> "input_audio_buffer.commit"]
FunctionOutputFrame(callId, output) ==
    [type |-> "conversation.item.create",
     item |-> [type |-> "function_call_output", call_id |-> callId, output |-> output]]
ResponseCreateFrame == [type |-> "response.create"]

\* !this.ws || this.ws.readyState !== 1
NotOpen(st) == st.ws = Undefined \/ st.conns[Get(st.ws)].readyState # OPEN

\* The same without the guard on readyState.
MutSendAudio(st, pcmData) ==
    IF st.ws = Undefined THEN st
    ELSE send(st, Get(st.ws), AudioAppendFrame(pcmData))

\* sendAudio(pcmData)
sendAudio(st, pcmData) ==
    IF NotOpen(st) THEN st
    ELSE send(st, Get(st.ws), AudioAppendFrame(pcmData))

\* commitAudio()
commitAudio(st) ==
    IF NotOpen(st) THEN st
    ELSE send(st, Get(st.ws), AudioCommitFrame)

\* The same sending response.create first.
MutSendFunctionResult(st, callId, output) ==
    IF NotOpen(st) THEN st
    ELSE send(send(st, Get(st.ws), ResponseCreateFrame),
              Get(st.ws), FunctionOutputFrame(callId, output))

\* sendFunctionResult(callId, output)
sendFunctionResult(st, callId, output) ==
    IF NotOpen(st) THEN st
    ELSE send(send(st, Get(st.ws), FunctionOutputFrame(callId, output)),
              Get(st.ws), ResponseCreateFrame)

\* The client may send n more frames: FramesSent(k) is what the first k sockets carry.
HasRoom(n) ==
    LET RECURSIVE FramesSent(_)
        FramesSent(k) == IF k = 0 THEN 0 ELSE Len(conns[k].sent) + FramesSent(k - 1)
    IN FramesSent(Len(conns)) + n <= MaxFrames

SendConnect == ConnectWith({ConfigEmpty}, MaxSendSockets)

\* The caller calls sendAudio(pcmData).
SendAudio ==
    /\ HasRoom(1)
    /\ \E pcmData \in AudioChunks : Becomes(sendAudio(RealtimeState, pcmData))
    /\ UNCHANGED <<nMsgs, lastConnectError, credential, options, retryVars, queryVars, effortVars, codexVars, abandoned, subscriptionVars>>

\* The caller calls commitAudio().
CommitAudio ==
    /\ HasRoom(1)
    /\ Becomes(commitAudio(RealtimeState))
    /\ UNCHANGED <<nMsgs, lastConnectError, credential, options, retryVars, queryVars, effortVars, codexVars, abandoned, subscriptionVars>>

\* The caller calls sendFunctionResult(callId, output).
SendFunctionResult ==
    /\ HasRoom(2)
    /\ \E r \in FunctionResults :
        Becomes(sendFunctionResult(RealtimeState, r.callId, r.output))
    /\ UNCHANGED <<nMsgs, lastConnectError, credential, options, retryVars, queryVars, effortVars, codexVars, abandoned, subscriptionVars>>

NextSend ==
    \/ SendConnect
    \/ Disconnect
    \/ HandshakeTimeout
    \/ SocketOpens
    \/ SocketBeginsClosing
    \/ ReconnectSocketError
    \/ ReconnectSocketClose
    \/ SendAudio
    \/ CommitAudio
    \/ SendFunctionResult

SpecSend == InitRealtime /\ [][NextSend]_vars

-----------------------------------------------------------------------------
(* Claims about the outbound operations (checked under SpecSend). *)

\* The client holds a socket and that socket is OPEN.
HoldsOpenSocket == ws # Undefined /\ conns[Get(ws)].readyState = OPEN

\* chars is the base64 text of bytes: four characters for every three bytes begun,
\* "=" exactly in the places the last group leaves empty, and decoding to bytes.
IsBase64Of(chars, bytes) ==
    LET pad == (3 - (Len(bytes) % 3)) % 3
    IN /\ Len(chars) = 4 * ((Len(bytes) + 2) \div 3)
       /\ \A k \in DOMAIN chars : (chars[k] = "=") <=> (k > Len(chars) - pad)
       /\ DecodeSextets(Base64Payload(chars)) = bytes

\* C21: without a socket, or holding a socket that is not OPEN, sendAudio, commitAudio
\* and sendFunctionResult change nothing (no frame, no event, no error: they return);
\* holding an OPEN socket, sendAudio appends to that socket's frames exactly one
\* input_audio_buffer.append frame whose audio is the base64 text of the bytes, and
\* changes nothing else.
C21_SendsNeedOpenSocketAndAudioIsBase64 ==
    LET st == RealtimeState
    IN IF ~HoldsOpenSocket
       THEN /\ \A pcmData \in AudioChunks : sendAudio(st, pcmData) = st
            /\ commitAudio(st) = st
            /\ \A r \in FunctionResults : sendFunctionResult(st, r.callId, r.output) = st
       ELSE \A pcmData \in AudioChunks :
                LET j == Get(ws)
                    after == sendAudio(st, pcmData)
                    sent == after.conns[j].sent
                IN /\ Len(sent) = Len(conns[j].sent) + 1
                   /\ after = [st EXCEPT !.conns[j].sent = Append(@, sent[Len(sent)])]
                   /\ DOMAIN sent[Len(sent)] = {"type", "audio"}
                   /\ sent[Len(sent)].type = "input_audio_buffer.append"
                   /\ IsBase64Of(sent[Len(sent)].audio, pcmData)

\* sendAudio was called with the bytes of "Ma" on an open socket, which the server
\* then began to close: the one frame carries "TWE=".
C21_Witness ==
    /\ ws = Some(1)
    /\ conns[1].readyState = CLOSING
    /\ conns[1].closeCalls = <<>>
    /\ conns[1].sent = <<[type |-> "input_audio_buffer.append",
                          audio |-> <<"T", "W", "E", "=">>]>>

\* C22: holding an OPEN socket, sendFunctionResult(callId, output) appends to that
\* socket's frames exactly two frames and changes nothing else: a
\* conversation.item.create carrying a function_call_output item with that call id and
\* output, then a response.create; and in every frame list a conversation.item.create
\* is followed at once by a response.create.
C22_FunctionResultThenResponseCreate ==
    /\ HoldsOpenSocket =>
         \A r \in FunctionResults :
             sendFunctionResult(RealtimeState, r.callId, r.output)
               = [RealtimeState EXCEPT
                    !.conns[Get(ws)].sent =
                        @ \o <<[type |-> "conversation.item.create",
                                item |-> [type |-> "function_call_output",
                                          call_id |-> r.callId, output |-> r.output]],
                               [type |-> "response.create"]>>]
    /\ \A j \in DOMAIN conns : \A k \in DOMAIN conns[j].sent :
         /\ conns[j].sent[k].type = "conversation.item.create"
              => /\ k < Len(conns[j].sent)
                 /\ conns[j].sent[k + 1] = [type |-> "response.create"]
         /\ conns[j].sent[k].type = "response.create"
              => /\ k > 1
                 /\ conns[j].sent[k - 1].type = "conversation.item.create"

\* sendFunctionResult("call-1", '{"temp": 72}') was called on an open socket.
C22_Witness ==
    /\ HoldsOpenSocket
    /\ conns[Get(ws)].sent =
         <<[type |-> "conversation.item.create",
            item |-> [type |-> "function_call_output",
                      call_id |-> "call-1", output |-> "{\"temp\": 72}"]],
           [type |-> "response.create"]>>

-----------------------------------------------------------------------------
(* Inbound demultiplexing: every kind of message handleServerEvent tells   *)
(* apart, delivered to the sockets of a client that connects, disconnects  *)
(* and times out and whose sockets open and close, without socket errors.  *)

\* The most sockets one client creates while it receives.
MaxDemuxSockets == 1
\* The most inbound messages the sockets deliver altogether while it receives.
MaxDemuxMessages == 2

\* The messages the server sends, as ev.data: session.created, one message of each
\* recognized type with its payload, a type the client does not know, an audio delta
\* whose delta is not a string, and an error without an error object.
DemuxMessages ==
    <<[json |-> Some(JObj([type |-> JStr("session.created"),
                           session |-> JObj([id |-> JStr("sess-3")])]))],
      [json |-> Some(JObj([type |-> JStr("response.audio.delta"),
                           delta |-> JStr(<<"T", "W", "E", "=">>)]))],
      [json |-> Some(JObj([type |-> JStr("response.audio_transcript.done"),
                           transcript |-> JStr("Hello there")]))],
      [json |-> Some(JObj([type |-> JStr("conversation.item.input_audio_transcription.completed"),
                           transcript |-> JStr("What time is it")]))],
      [json |-> Some(JObj([type |-> JStr("response.text.delta"), delta |-> JStr("Hi")]))],
      [json |-> Some(JObj([type |-> JStr("response.function_call_arguments.done"),
                           call_id |-> JStr("call-1"), name |-> JStr("get_weather"),
                           arguments |-> JStr("{\"city\":\"NYC\"}")]))],
      [json |-> Some(JObj([type |-> JStr("error"),
                           error |-> JObj([message |-> JStr("Rate limit exceeded"),
                                           code |-> JStr("rate_limit_exceeded")])]))],
      [json |-> Some(JObj([type |-> JStr("rate_limits.updated")]))],
      [json |-> Some(JObj([type |-> JStr("response.audio.delta"),
                           delta |-> [t |-> "number", v |-> 7]]))],
      [json |-> Some(JObj([type |-> JStr("error")]))]>>

DemuxConnect == ConnectWith({ConfigEmpty}, MaxDemuxSockets)

\* Socket i, open, delivers one of the server's messages.
DemuxMessage ==
    /\ nMsgs < MaxDemuxMessages
    /\ \E i \in DOMAIN conns : \E k \in DOMAIN DemuxMessages :
        /\ conns[i].readyState = OPEN
        /\ Becomes(onmessage(RealtimeState, i, DemuxMessages[k]))
    /\ nMsgs' = nMsgs + 1
    /\ UNCHANGED <<lastConnectError, credential, options, retryVars, queryVars, effortVars, codexVars, abandoned, subscriptionVars>>

NextDemux ==
    \/ DemuxConnect
    \/ Disconnect
    \/ HandshakeTimeout
    \/ SocketOpens
    \/ DemuxMessage
    \/ ReconnectSocketClose

SpecDemux == InitRealtime /\ [][NextDemux]_vars

-----------------------------------------------------------------------------
(* Claims about the inbound demultiplexing (checked under SpecDemux). *)

\* What each of DemuxMessages is to become, in the order of DemuxMessages.
DemuxTable ==
    <<  \* session.created (the handshake)
        <<[type |-> "session.created", sessionId |-> "sess-3"]>>,
        \* audio delta: one audio event with the bytes of "Ma"
        <<[type |-> "audio", data |-> <<77, 97>>]>>,
        \* assistant transcript done
        <<[type |-> "transcript", text |-> "Hello there", role |-> "assistant"]>>,
        \* user input transcription completed
        <<[type |-> "transcript", text |-> "What time is it", role |-> "user"]>>,
        \* text delta
        <<[type |-> "text", text |-> "Hi"]>>,
        \* function-call arguments done: the arguments are the text received
        <<[type |-> "tool_call", callId |-> "call-1", name |-> "get_weather",
           arguments |-> "{\"city\":\"NYC\"}"]>>,
        \* server error
        <<[type |-> "error", message |-> "Rate limit exceeded",
           code |-> Some("rate_limit_exceeded")]>>,
        \* a type the client does not know
        <<>>,
        \* a delta that is not a string is no audio delta
        <<>>,
        \* server error without details
        <<[type |-> "error", message |-> "Unknown realtime error", code |-> Undefined]>> >>

\* Socket i delivers the k-th of DemuxMessages.
DemuxDelivers(i, k) ==
    /\ nMsgs < MaxDemuxMessages
    /\ conns[i].readyState = OPEN
    /\ Becomes(onmessage(RealtimeState, i, DemuxMessages[k]))
    /\ nMsgs' = nMsgs + 1

\* C23: whatever was received before, the delivery of a message appends to the events
\* emitted so far exactly the events DemuxTable gives for that message alone (one
\* audio, transcript{assistant}, transcript{user}, text, tool_call with the arguments
\* text as received, or error event; none for an unknown type), so that the events
\* are in the order of the messages; and, session.created apart, it changes neither
\* the socket the client holds nor any socket, promise or timer.
C23_MessagesMapOneByOneInOrder ==
    [][\A i \in DOMAIN conns : \A k \in DOMAIN DemuxMessages :
         DemuxDelivers(i, k)
           => /\ emitted' = emitted \o [n \in DOMAIN DemuxTable[k] |->
                                          [from |-> i, event |-> DemuxTable[k][n]]]
              /\ k # 1 => UNCHANGED <<ws, conns>>]_vars

\* After the handshake the socket delivered a function-call arguments done message.
C23_Witness ==
    /\ nMsgs = 2
    /\ Len(conns) = 1 /\ conns[1].promise = "resolved"
    /\ emitted = <<[from |-> 1, event |-> [type |-> "session.created",
                                           sessionId |-> "sess-3"]],
                   [from |-> 1, event |-> [type |-> "tool_call", callId |-> "call-1",
                                           name |-> "get_weather",
                                           arguments |-> "{\"city\":\"NYC\"}"]]>>

-----------------------------------------------------------------------------
(* The endpoint and the credential of the realtime socket: clients built   *)
(* with every credential and options, connecting with every model.         *)

\* The most sockets one client creates while its endpoint is observed.
MaxEndpointSockets == 1

\* The constructor's credential.
Credentials == {"sk-test-123", "sk-live-456"}

\* options.baseUrl: absent, the gateway of the tests with and without a final "/",
\* a gateway at the root, origins without a path, a direct base with a path, the
\* empty text, and a text that is not a URL.
BaseUrls ==
    {Undefined,
     Some(<<"wss", "://", "api.wopr.bot", "/", "v1", "/", "openai">>),
     Some(<<"wss", "://", "api.wopr.bot", "/", "v1", "/", "openai", "/">>),
     Some(<<"wss", "://", "gw.example.com", "/", "openai">>),
     Some(<<"wss", "://", "gw.example.com">>),
     Some(<<"wss", "://", "gw.example.com", "/">>),
     Some(<<"https", "://", "eu.example.com", "/", "custom", "/", "v2">>),
     Some(<<"wss", "://", "eu.example.com", "/", "custom", "/">>),
     Some(<<>>),
     Some(<<"not a url">>)}

\* options.tenantToken
TenantTokens == {Undefined, Some("wopr_abc"), Some("")}

\* config.model: absent, empty, a plain name and a name with separators.
EndpointConfigs ==
    {[ConfigEmpty EXCEPT !.model = model] :
        model \in {Undefined, Some(<<>>), Some(<<"gpt-4o-realtime-preview">>),
                   Some(<<"ft", ":", "gpt-realtime", ":", "acme", "/", "v2">>)}}

InitEndpoint ==
    /\ RetryIdle /\ QueryIdle /\ EffortIdle /\ RealtimeFresh /\ CodexIdle
    /\ credential \in Credentials
    /\ options \in [baseUrl : BaseUrls, tenantToken : TenantTokens]

EndpointConnect == ConnectWith(EndpointConfigs, MaxEndpointSockets)

NextEndpoint ==
    \/ EndpointConnect
    \/ Disconnect
    \/ SocketOpens
    \/ ReconnectSocketClose

SpecEndpoint == InitEndpoint /\ [][NextEndpoint]_vars

-----------------------------------------------------------------------------
(* Claims about the endpoint and the credential (checked under SpecEndpoint). *)

\* The base URL in force and the model asked for.
BaseInForce == IF TruthyText(options.baseUrl) THEN Get(options.baseUrl) ELSE DefaultBaseUrl
ModelAsked(i) ==
    IF TruthyText(conns[i].config.model) THEN Get(conns[i].config.model) ELSE DefaultModel

\* The path of a base URL text, without a final "/".
BasePathOf(base) ==
    LET path == SubSeq(base, 4, Len(base))
    IN IF path # <<>> /\ path[Len(path)] = "/" THEN SubSeq(path, 1, Len(path) - 1) ELSE path

\* A gateway-style base URL: its path ends in /openai.
IsGateway(base) ==
    LET path == BasePathOf(base)
    IN Len(path) >= 2 /\ SubSeq(path, Len(path) - 1, Len(path)) = <<"/", "openai">>

\* decodeURIComponent, on the escapes of the separators.
URIDecoded(text) ==
    [k \in DOMAIN text |->
        CASE text[k] = "%3A" -> ":"
          [] text[k] = "%2F" -> "/"
          [] text[k] = "%20" -> " "
          [] text[k] = "%3F" -> "?"
          [] text[k] = "%3D" -> "="
          [] OTHER -> text[k]]

\* C24: the url of every socket is the origin of the base URL in force (the default
\* upstream when none is configured), then the base path (/v1 when the base has no
\* path; the path without its /openai suffix for a gateway; the path itself
\* otherwise), then /realtime?model= and the model, escaped as a query value.
C24_EndpointIsOriginBasePathRealtimeModel ==
    \A i \in DOMAIN conns :
        LET base == BaseInForce
            path == BasePathOf(base)
            expectedPath ==
                IF path = <<>> THEN <<"/", "v1">>
                ELSE IF IsGateway(base) THEN SubSeq(path, 1, Len(path) - 2)
                ELSE path
            head == SubSeq(base, 1, 3) \o expectedPath
                      \o <<"/", "realtime", "?", "model", "=">>
            url == conns[i].url
            query == SubSeq(url, Len(head) + 1, Len(url))
        IN /\ Len(url) > Len(head)
           /\ SubSeq(url, 1, Len(head)) = head
           /\ URIDecoded(query) = ModelAsked(i)
           /\ \A k \in DOMAIN query : query[k] \notin {":", "/", " ", "?", "=", "://"}

\* The gateway of the tests: wss://api.wopr.bot/v1/openai and no model give
\* wss://api.wopr.bot/v1/realtime?model=gpt-realtime.
C24_Witness ==
    /\ options.baseUrl = Some(<<"wss", "://", "api.wopr.bot", "/", "v1", "/", "openai">>)
    /\ Len(conns) = 1
    /\ conns[1].url = <<"wss", "://", "api.wopr.bot", "/", "v1", "/", "realtime",
                        "?", "model", "=", "gpt-realtime">>

\* C25: the Authorization header of every socket is "Bearer " and the tenant token
\* when one is configured (not empty), and "Bearer " and the caller's credential
\* otherwise; with a tenant token configured the header is the same whatever the
\* credential, and the credential is in no piece of the url.
C25_BearerIsTenantTokenElseCredential ==
    /\ \A i \in DOMAIN conns :
        /\ conns[i].headers.Authorization =
              "Bearer " \o (IF options.tenantToken \notin {Undefined, Some("")}
                            THEN Get(options.tenantToken) ELSE credential)
        /\ \A k \in DOMAIN conns[i].url : conns[i].url[k] # credential
    /\ options.tenantToken \notin {Undefined, Some("")}
         => \A c \in Credentials : BearerToken(c, options) = Get(options.tenantToken)

\* A client with a credential and a tenant token has connected.
C25_Witness ==
    /\ credential = "sk-test-123"
    /\ options.tenantToken = Some("wopr_abc")
    /\ Len(conns) = 1
    /\ conns[1].headers.Authorization = "Bearer wopr_abc"

-----------------------------------------------------------------------------
(* What query() retries (checked under SpecQuery). *)

\* How many of the calls made on the backend are thread.runStreamed calls.
RECURSIVE RunStreamedCount(_)
RunStreamedCount(cs) ==
    IF cs = <<>> THEN 0
    ELSE (IF IsRunStreamedCall(Head(cs)) THEN 1 ELSE 0) + RunStreamedCount(Tail(cs))

\* C30: within one query() thread.runStreamed is called at most four times; once it
\* has returned the stream, no step (an event translated, the stream ending, the
\* stream raising while it is iterated) calls the backend again or starts a backoff
\* wait; and a backoff wait only ever follows a failed thread.runStreamed call.
C30_OnlyObtainingTheStreamIsRetried ==
    [][/\ RunStreamedCount(calls') <= 4
       /\ rpc = "returned" => (calls' = calls /\ waits' = waits /\ fnCalls' = fnCalls)
       /\ waits' # waits => (/\ pc = "retry"
                             /\ calls' = Append(calls, RunStreamedCall(prompt))
                             /\ fnCalls' = fnCalls + 1)]_vars

\* thread.runStreamed failed three times and returned the stream at the fourth call,
\* and the stream then raised while it was iterated: four calls, three waits.
C30_Witness ==
    /\ pc = "threw" /\ rpc = "returned"
    /\ thrown = Some(WrapError(IterationError))
    /\ RunStreamedCount(calls) = 4
    /\ Len(waits) = 3

-----------------------------------------------------------------------------
(* Credential resolution (index.ts): loadCodexCredentials, getApiKeyFromEnv,
   getAuth.  A key is a text the code tests for the prefix "sk-", so it is
   the sequence of its pieces: <<"sk-", rest>>, <<other>> or <<>> (""). *)

startsWithSk(key) == Len(key) >= 1 /\ key[1] = "sk-"

\* What ~/.codex/auth.json can be: missing, present but unreadable (readFileSync
\* throws), readable but not JSON (JSON.parse throws), or a JSON value.  None
\* of the bundles carries an id_token, so email and planType stay "".
NoFile == [exists |-> FALSE, readable |-> FALSE, json |-> Undefined]
FileHolding(j) == [exists |-> TRUE, readable |-> TRUE, json |-> Some(j)]
OAuthTokens == JObj([access_token |-> JStr(<<"at-1">>), refresh_token |-> JStr(<<"rt-1">>)])
AuthFiles ==
    { NoFile,
      [exists |-> TRUE, readable |-> FALSE, json |-> Undefined],
      [exists |-> TRUE, readable |-> TRUE, json |-> Undefined],
      FileHolding([t |-> "null"]),
      FileHolding(JStr(<<"sk-", "quoted">>)),
      FileHolding(JObj(<<>>)),
      FileHolding(JObj([tokens |-> OAuthTokens])),
      FileHolding(JObj([OPENAI_API_KEY |-> JStr(<<"sk-", "file-1">>)])),
      FileHolding(JObj([OPENAI_API_KEY |-> JStr(<<"filekey">>)])),
      FileHolding(JObj([tokens |-> OAuthTokens,
                        OPENAI_API_KEY |-> JStr(<<"sk-", "file-1">>)])),
      FileHolding(JObj([tokens |-> JObj([access_token |-> JStr(<<>>)]),
                        OPENAI_API_KEY |-> JStr(<<"sk-", "file-1">>)])),
      FileHolding(JObj([tokens |-> [t |-> "null"]])) }

EnvKeys == {Undefined, Some(<<>>), Some(<<"sk-", "env-1">>), Some(<<"envkey">>)}

\* A property read off a parsed JSON value: a TypeError on null, undefined
\* on a primitive.  (Only called on a value that is not null.)
Prop(j, name) == IF j.t = "object" THEN Field(j, name) ELSE Undefined

\* A JSON value read in a condition: here strings, objects and null occur.
TruthyJson(o) ==
    /\ o # Undefined
    /\ Get(o).t # "null"
    /\ Get(o).t = "string" => Get(o).v # <<>>

\* x || "" for a JSON string property
TextOrEmpty(o) == IF TruthyJson(o) THEN Get(o).v ELSE <<>>

OAuthState(tokens) ==
    [type |-> "oauth", accessToken |-> Some(Get(Prop(tokens, "access_token")).v),
     refreshToken |-> Some(TextOrEmpty(Prop(tokens, "refresh_token"))),
     email |-> Some(<<>>), planType |-> Some(<<>>), apiKey |-> Undefined]

ApiKeyState(key) ==
    [type |-> "api_key", accessToken |-> Undefined, refreshToken |-> Undefined,
     email |-> Undefined, planType |-> Undefined, apiKey |-> Some(key)]

\* The body of the try block once JSON.parse has returned data: the value it
\* returns, or threw = TRUE for the TypeError of reading a property of null.
CredentialsIn(data) ==
    IF data.t = "null" THEN [threw |-> TRUE, value |-> Undefined]
    ELSE LET tokens == Prop(data, "tokens")
             access == IF tokens = Undefined \/ Get(tokens).t = "null"
                       THEN Undefined ELSE Prop(Get(tokens), "access_token")
             key    == Prop(data, "OPENAI_API_KEY")
         IN  [threw |-> FALSE,
              value |-> IF TruthyJson(access) THEN Some(OAuthState(Get(tokens)))
                        ELSE IF TruthyJson(key) THEN Some(ApiKeyState(Get(key).v))
                        ELSE Undefined]

MutLoadCodexCredentials(file) ==
    IF ~file.exists \/ ~file.readable \/ file.json = Undefined THEN Undefined
    ELSE IF CredentialsIn(Get(file.json)).threw THEN Undefined
    ELSE IF TruthyJson(Prop(Get(file.json), "OPENAI_API_KEY"))
         THEN Some(ApiKeyState(Get(Prop(Get(file.json), "OPENAI_API_KEY")).v))
         ELSE CredentialsIn(Get(file.json)).value

\* loadCodexCredentials(): null when the file does not exist; else the value of
\* the try block, and null when readFileSync, JSON.parse or the body throws.
loadCodexCredentials(file) ==
    IF ~file.exists THEN Undefined
    ELSE IF ~file.readable \/ file.json = Undefined THEN Undefined
    ELSE IF CredentialsIn(Get(file.json)).threw THEN Undefined
    ELSE CredentialsIn(Get(file.json)).value

\* process.env.OPENAI_API_KEY || null
getApiKeyFromEnv(key) == IF TruthyText(key) THEN key ELSE Undefined

MutGetAuth(file, key) ==
    IF getApiKeyFromEnv(key) # Undefined /\ startsWithSk(Get(getApiKeyFromEnv(key)))
    THEN Some(ApiKeyState(Get(getApiKeyFromEnv(key))))
    ELSE loadCodexCredentials(file)

\* getAuth(): the file's credential, else the environment's key when it
\* starts with "sk-", else null.
getAuth(file, key) ==
    IF loadCodexCredentials(file) # Undefined THEN loadCodexCredentials(file)
    ELSE IF getApiKeyFromEnv(key) # Undefined /\ startsWithSk(Get(getApiKeyFromEnv(key)))
         THEN Some(ApiKeyState(Get(getApiKeyFromEnv(key))))
         ELSE Undefined

-----------------------------------------------------------------------------
(* CodexClient: the constructor and getCodex() (index.ts:371-429).  A call
   of query() or healthCheck() is a caller: [kind, pc, auth, codex, outcome],
   auth being Some(what its getAuth() returned) once it has called it, and pc going "sdk" (awaiting loadCodexSDK()) -> "got" (getCodex() returned
   the handle codex, an index of built) -> "started" (a thread was asked of
   that handle), or to "threw" / "returned" with an outcome. *)

MaxCallers == 2

ExplicitCredentials == {<<>>, <<"sk-", "explicit-1">>, <<"token-xyz">>}

GatewayUrl == <<"https://api.wopr.bot/v1/openai">>
ClientOptions ==
    { [baseUrl |-> Undefined, tenantToken |-> Undefined],
      [baseUrl |-> Some(GatewayUrl), tenantToken |-> Undefined],
      [baseUrl |-> Some(GatewayUrl), tenantToken |-> Some(<<"wopr_", "tenant">>)],
      [baseUrl |-> Undefined, tenantToken |-> Some(<<"wopr_", "tenant">>)] }

SdkMissingError ==
    Err("nosdk", Undefined, Undefined, <<"OpenAI", "Codex", "SDK", "not", "installed.">>)

\* new CodexClient(cred, clientOpts) on a host with this file and environment
Constructed(cred, clientOpts, file, key) ==
    LET auth == getAuth(file, key)
        base == [given |-> cred, credential |-> cred, options |-> clientOpts,
                 authType |-> "none", codex |-> Undefined]
    IN  IF startsWithSk(cred) THEN [base EXCEPT !.authType = "api_key"]
        ELSE IF auth # Undefined /\ Get(auth).type = "oauth"
             THEN [base EXCEPT !.authType = "oauth"]
        ELSE IF auth # Undefined /\ Get(auth).type = "api_key"
             THEN [base EXCEPT !.authType = "api_key",
                               !.credential = IF TruthyText(Get(auth).apiKey)
                                              THEN Get(Get(auth).apiKey) ELSE <<>>]
        ELSE base

\* a || b on optional texts
OrText(a, b) == IF TruthyText(a) THEN a ELSE b

\* auth?.apiKey
ApiKeyOf(auth) == IF auth = Undefined THEN Undefined ELSE Get(auth).apiKey

MutCodexConfig(cl, auth) ==
    LET key == OrText(ApiKeyOf(auth), Some(cl.credential))
    IN  IF TruthyText(cl.options.baseUrl)
        THEN Some([apiKey |-> OrText(cl.options.tenantToken, key),
                   baseUrl |-> cl.options.baseUrl, tenantToken |-> Undefined])
        ELSE IF cl.authType = "oauth"
        THEN Some([apiKey |-> Undefined, baseUrl |-> cl.options.baseUrl,
                   tenantToken |-> cl.options.tenantToken])
        ELSE IF TruthyText(key)
        THEN Some([apiKey |-> key, baseUrl |-> cl.options.baseUrl,
                   tenantToken |-> cl.options.tenantToken])
        ELSE Undefined

\* The argument of `new Codex(...)` in getCodex(), Undefined where getCodex()
\* throws "No valid credentials available" instead.
CodexConfig(cl, auth) ==
    LET key == OrText(Some(cl.credential), ApiKeyOf(auth))
    IN  IF TruthyText(cl.options.baseUrl)
        THEN Some([apiKey |-> OrText(cl.options.tenantToken, key),
                   baseUrl |-> cl.options.baseUrl, tenantToken |-> Undefined])
        ELSE IF cl.authType = "oauth"
        THEN Some([apiKey |-> Undefined, baseUrl |-> cl.options.baseUrl,
                   tenantToken |-> cl.options.tenantToken])
        ELSE IF TruthyText(key)
        THEN Some([apiKey |-> key, baseUrl |-> cl.options.baseUrl,
                   tenantToken |-> cl.options.tenantToken])
        ELSE Undefined

NewCaller(kind) ==
    [kind |-> kind, pc |-> "sdk", auth |-> Undefined, codex |-> Undefined,
     outcome |-> Undefined]

\* An error raised inside the call: query() lets it through, healthCheck()
\* catches it, logs it and returns false.
Failed(caller, e) ==
    IF caller.kind = "healthCheck"
    THEN [caller EXCEPT !.pc = "returned", !.outcome = Some(FALSE)]
    ELSE [caller EXCEPT !.pc = "threw", !.outcome = Some(e)]

\* query() or healthCheck() is called and runs up to the first await of
\* getCodex(): the cached handle when this.codex is set, else loadCodexSDK().
CallerArrives(kind) ==
    /\ Len(callers) < MaxCallers
    /\ callers' = Append(callers,
                    IF client.codex # Undefined
                    THEN [NewCaller(kind) EXCEPT !.pc = "got", !.codex = client.codex]
                    ELSE NewCaller(kind))
    /\ UNCHANGED <<authFile, envKey, sdkInstalled, client, built>>

\* loadCodexSDK() settles for caller c: its getCodex() runs to its end.
SdkSettles(c) ==
    /\ callers[c].pc = "sdk"
    /\ LET auth == getAuth(authFile, envKey)
           cfg  == CodexConfig(client, auth)
       IN  IF ~sdkInstalled
           THEN /\ callers' = [callers EXCEPT ![c] = Failed(@, SdkMissingError)]
                /\ UNCHANGED <<client, built>>
           ELSE IF cfg = Undefined
           THEN /\ callers' = [callers EXCEPT
                                 ![c] = Failed([@ EXCEPT !.auth = Some(auth)], NoCredentialsError)]
                /\ UNCHANGED <<client, built>>
           ELSE /\ built' = Append(built, Get(cfg))
                /\ client' = [client EXCEPT !.codex = Some(Len(built) + 1)]
                /\ callers' = [callers EXCEPT ![c] =
                                 [@ EXCEPT !.pc = "got", !.auth = Some(auth),
                                           !.codex = Some(Len(built) + 1)]]
    /\ UNCHANGED <<authFile, envKey, sdkInstalled>>

\* Caller c asks its handle for a thread (codex.startThread / resumeThread).
StartsThread(c) ==
    /\ callers[c].pc = "got"
    /\ callers' = [callers EXCEPT ![c].pc = "started"]
    /\ UNCHANGED <<authFile, envKey, sdkInstalled, client, built>>

OtherThanCodex == UNCHANGED <<retryVars, queryVars, effortVars, realtimeVars, abandoned>>

ClientArrives == \E kind \in {"query", "healthCheck"} : CallerArrives(kind) /\ OtherThanCodex
ClientSdkSettles == \E c \in DOMAIN callers : SdkSettles(c) /\ OtherThanCodex
ClientStartsThread == \E c \in DOMAIN callers : StartsThread(c) /\ OtherThanCodex

InitClient ==
    /\ RetryIdle /\ QueryIdle /\ EffortIdle /\ RealtimeIdle
    /\ authFile \in AuthFiles
    /\ envKey \in EnvKeys
    /\ sdkInstalled \in BOOLEAN
    /\ \E cred \in ExplicitCredentials, clientOpts \in ClientOptions :
           client = Constructed(cred, clientOpts, authFile, envKey)
    /\ built = <<>>
    /\ callers = <<>>

NextClient == ClientArrives \/ ClientSdkSettles \/ ClientStartsThread

SpecClient == InitClient /\ [][NextClient]_vars

-----------------------------------------------------------------------------
(* C27 *)

\* What the credential file holds, read off the file itself.
FileIsObject ==
    /\ authFile.exists /\ authFile.readable /\ authFile.json # Undefined
    /\ Get(authFile.json).t = "object"
FileFields == Get(authFile.json).f
FileHasBundle ==
    /\ FileIsObject
    /\ "tokens" \in DOMAIN FileFields
    /\ FileFields.tokens.t = "object"
    /\ "access_token" \in DOMAIN FileFields.tokens.f
    /\ FileFields.tokens.f.access_token.v # <<>>
FileHasFlatKey ==
    /\ FileIsObject
    /\ "OPENAI_API_KEY" \in DOMAIN FileFields
    /\ FileFields.OPENAI_API_KEY.v # <<>>
EnvKeyPresent == envKey # Undefined /\ Get(envKey) # <<>>

\* The callers whose getAuth() has returned, and what it returned.
Resolved == {c \in DOMAIN callers : callers[c].auth # Undefined}
AuthOf(c) == Get(callers[c].auth)

FilePriorities(c) ==
    /\ FileHasBundle =>
          /\ AuthOf(c) # Undefined
          /\ Get(AuthOf(c)).type = "oauth"
          /\ Get(AuthOf(c)).accessToken = Some(FileFields.tokens.f.access_token.v)
    /\ ~FileHasBundle /\ FileHasFlatKey =>
          AuthOf(c) = Some(ApiKeyState(FileFields.OPENAI_API_KEY.v))

NothingButKnownErrors ==
    \A c \in DOMAIN callers :
        /\ callers[c].pc = "threw" =>
              callers[c].outcome \in {Some(SdkMissingError), Some(NoCredentialsError)}
        /\ sdkInstalled /\ callers[c].pc # "sdk" => c \in Resolved \/ callers[c].codex # Undefined

\* C27 as stated: with no credential from the file, the environment's key is
\* the credential whenever it is present.
C27_EnvKeyUsedIfPresent ==
    /\ NothingButKnownErrors
    /\ \A c \in Resolved :
          /\ FilePriorities(c)
          /\ ~FileHasBundle /\ ~FileHasFlatKey =>
                AuthOf(c) = IF EnvKeyPresent THEN Some(ApiKeyState(Get(envKey)))
                            ELSE Undefined

\* C27: resolving the credential never throws (a missing, unreadable,
\* non-JSON or null file counts as no file credential); the file's credential
\* wins over the environment's key, and within the file the OAuth bundle wins
\* over the flat API key; with no credential from the file, the environment's
\* key is the credential when it is present and begins with "sk-", and there
\* is no credential otherwise.
C27_FileThenSkEnvKey ==
    /\ NothingButKnownErrors
    /\ \A c \in Resolved :
          /\ FilePriorities(c)
          /\ ~FileHasBundle /\ ~FileHasFlatKey =>
                AuthOf(c) = IF EnvKeyPresent /\ Get(envKey)[1] = "sk-"
                            THEN Some(ApiKeyState(Get(envKey)))
                            ELSE Undefined

\* A file that cannot be parsed, a key in the environment, and a caller whose
\* getAuth() returned that key.
C27_Witness ==
    /\ authFile.exists /\ authFile.readable /\ authFile.json = Undefined
    /\ \E c \in Resolved :
          /\ AuthOf(c) = Some(ApiKeyState(<<"sk-", "env-1">>))
          /\ callers[c].pc = "got"

-----------------------------------------------------------------------------
(* C28 *)

GatewayMode == client.options.baseUrl # Undefined /\ Get(client.options.baseUrl) # <<>>

\* C28: when the constructor was given a non-empty credential beginning with
\* "sk-" and no gateway base URL is configured, every backend handle is
\* constructed with that credential as its API key, whatever the credential
\* file and the environment hold.
C28_ExplicitSkCredentialBuildsTheHandle ==
    Len(client.given) >= 1 /\ client.given[1] = "sk-" /\ ~GatewayMode
        => /\ \A i \in DOMAIN built : built[i].apiKey = Some(client.given)
           /\ \A c \in DOMAIN callers :
                 callers[c].pc = "threw" => callers[c].outcome = Some(SdkMissingError)

\* The file holds an OAuth bundle and a flat key, the environment a key, and
\* the handle a caller is using was built with the explicit credential.
C28_Witness ==
    /\ FileHasBundle /\ FileHasFlatKey
    /\ envKey = Some(<<"sk-", "env-1">>)
    /\ client.given = <<"sk-", "explicit-1">> /\ ~GatewayMode
    /\ \E c \in DOMAIN callers :
          /\ callers[c].pc = "started"
          /\ built[Get(callers[c].codex)].apiKey = Some(<<"sk-", "explicit-1">>)

-----------------------------------------------------------------------------
(* C29 *)

\* C29: on one client the backend handle is constructed at most once, every
\* call that holds a handle holds that one, and no call starts an
\* initialization while another call's initialization is in flight.
C29_HandleBuiltOnceAndShared ==
    /\ Len(built) <= 1
    /\ \A c, d \in DOMAIN callers :
          callers[c].codex # Undefined /\ callers[d].codex # Undefined
              => callers[c].codex = callers[d].codex
    /\ Cardinality({c \in DOMAIN callers : callers[c].pc = "sdk"}) <= 1

-----------------------------------------------------------------------------
(* healthCheck() (index.ts:602-622): one call on a fresh client, from its
   `await this.getCodex()` to its return.  The probe codex.startThread() runs
   inside retryWithBackoff; whatever is thrown is caught and false returned.
   loadCodexSDK(), the probe and the backoff timers all settle, so the call
   is weakly fair. *)

\* { maxRetries: 3, baseDelayMs: 1000 }
HealthRetryOpts ==
    [maxRetries |-> Some(3), baseDelayMs |-> Some(1000), retryableStatusCodes |-> Undefined]

ProbeErrors == {E429, E401, EReset}

OtherThanHealth == UNCHANGED <<queryVars, effortVars, realtimeVars, abandoned>>

HealthSdkSettles == SdkSettles(1) /\ UNCHANGED retryVars /\ OtherThanHealth

\* retryWithBackoff(async () => codex.startThread(), ...) is entered.
HealthProbeStarts ==
    /\ callers[1].pc = "got"
    /\ RetryEnter(HealthRetryOpts)
    /\ callers' = [callers EXCEPT ![1].pc = "probe"]
    /\ UNCHANGED <<authFile, envKey, sdkInstalled, client, built>>
    /\ OtherThanHealth

\* startThread() yields a thread: return !!thread
HealthProbeResolves ==
    /\ callers[1].pc = "probe"
    /\ RetryFnResolves("thread")
    /\ callers' = [callers EXCEPT ![1] = [@ EXCEPT !.pc = "returned", !.outcome = Some(TRUE)]]
    /\ UNCHANGED <<authFile, envKey, sdkInstalled, client, built>>
    /\ OtherThanHealth

\* startThread() throws: retryWithBackoff waits, or throws into the catch.
HealthProbeRejects ==
    /\ callers[1].pc = "probe"
    /\ \E e \in ProbeErrors : RetryFnRejects(e)
    /\ IF rpc' = "threw"
       THEN callers' = [callers EXCEPT ![1] = Failed(@, Get(rOutcome'))]
       ELSE UNCHANGED callers
    /\ UNCHANGED <<authFile, envKey, sdkInstalled, client, built>>
    /\ OtherThanHealth

HealthBackoffElapses ==
    /\ callers[1].pc = "probe"
    /\ RetryTimerFires
    /\ UNCHANGED codexVars
    /\ OtherThanHealth

InitHealth ==
    /\ RetryIdle /\ QueryIdle /\ EffortIdle /\ RealtimeIdle
    /\ authFile \in AuthFiles
    /\ envKey \in EnvKeys
    /\ sdkInstalled \in BOOLEAN
    /\ \E cred \in ExplicitCredentials, clientOpts \in ClientOptions :
           client = Constructed(cred, clientOpts, authFile, envKey)
    /\ built = <<>>
    /\ callers = <<NewCaller("healthCheck")>>

NextHealth ==
    \/ HealthSdkSettles
    \/ HealthProbeStarts
    \/ HealthProbeResolves
    \/ HealthProbeRejects
    \/ HealthBackoffElapses

SpecHealth == InitHealth /\ [][NextHealth]_vars /\ WF_vars(NextHealth)

-----------------------------------------------------------------------------
(* C26 *)

\* Nothing to authenticate with: no explicit credential, no credential in
\* the file, no usable key in the environment.
NoCredentials ==
    /\ client.given = <<>>
    /\ ~FileHasBundle /\ ~FileHasFlatKey
    /\ ~(EnvKeyPresent /\ Get(envKey)[1] = "sk-")

HealthReturned == callers[1].pc = "returned"
HealthResult == callers[1].outcome

\* The probe succeeded within the retry policy: retryWithBackoff returned,
\* after at most four calls of startThread() of which only the last succeeded.
ProbeSucceeded == rpc = "returned" /\ fnCalls <= 4 /\ Len(waits) = fnCalls - 1

HealthCompletesWithProbeResult ==
    /\ callers[1].pc # "threw"
    /\ HealthReturned =>
          /\ HealthResult \in {Some(TRUE), Some(FALSE)}
          /\ HealthResult = Some(TRUE) <=> built # <<>> /\ ProbeSucceeded
    /\ rpc = "threw" =>
          /\ HealthReturned /\ HealthResult = Some(FALSE)
          /\ \/ ~IsRetryable(Get(lastErr), DefaultRetryableCodes)
             \/ fnCalls = 4

\* C26 as stated: healthCheck() returns false whenever no credentials are
\* available (no tenant token either).
C26_FalseWheneverNoCredentials ==
    /\ HealthCompletesWithProbeResult
    /\ NoCredentials /\ client.options.tenantToken = Undefined /\ HealthReturned
          => HealthResult = Some(FALSE)


-----------------------------------------------------------------------------
(* C32 *)

\* The query() calls whose getCodex() has run to its end.
QueriesPastGetCodex ==
    {c \in DOMAIN callers : callers[c].kind = "query" /\ callers[c].pc # "sdk"}

\* C32: on a client for which no credential can be resolved (no explicit
\* credential, no file credential, no usable environment key, no tenant
\* token), query() throws out of getCodex(): it never holds a backend handle
\* and never asks one for a thread.
C32_NoCredentialQueryFailsFast ==
    NoCredentials /\ client.options.tenantToken = Undefined
        => \A c \in QueriesPastGetCodex :
              /\ callers[c].pc = "threw"
              /\ callers[c].codex = Undefined

-----------------------------------------------------------------------------
(* C33 (SpecQuery) *)

KnownItemKinds ==
    {"agent_message", "reasoning", "command_execution", "file_change", "mcp_tool_call"}

\* The upstream events the translation has nothing to say about: turn.completed,
\* an event of a type it does not know, a completed item of a kind it does not know.
IsIgnored(e) ==
    \/ e.type = "turn.completed"
    \/ e.type \notin {"thread.started", "turn.started", "item.completed",
                      "turn.completed", "turn.failed"}
    \/ e.type = "item.completed" /\ e.item.type \notin KnownItemKinds

\* The events of a sequence that are not ignored, in order.
Heeded(events) == SelectSeq(events, LAMBDA e : ~IsIgnored(e))

\* The translations of the events of a sequence, one after the other.
RECURSIVE TranslateAll(_, _)
TranslateAll(events, th) ==
    IF events = <<>> THEN <<>>
    ELSE Translate(Head(events), th) \o TranslateAll(Tail(events), th)

\* What query() has yielded for the upstream events: everything but the final result.
YieldedForEvents == IF pc = "done" THEN SubSeq(out, 1, Len(out) - 1) ELSE out

\* C33: consuming turn.completed, an event of an unrecognized type or a
\* completed item of an unrecognized kind yields nothing and raises nothing,
\* and the canonical output is at every moment what the other upstream
\* events alone would have produced.
C33_IgnoredEventsLeaveNoTrace ==
    /\ [](Translating => YieldedForEvents = TranslateAll(Heeded(consumed), Get(thread)))
    /\ [][(consumed' # consumed /\ IsIgnored(consumed'[Len(consumed')]))
            => out' = out /\ pc' = pc /\ thrown' = thrown]_vars

\* An ignored event was consumed first, and the event after it was translated.
C33_Witness ==
    /\ pc = "done" /\ Len(consumed) = 2
    /\ IsIgnored(consumed[1]) /\ ~IsIgnored(consumed[2])
    /\ consumed[1].type \in {"item.completed", "item.started"}
    /\ Len(out) >= 2

-----------------------------------------------------------------------------
(* Abandonment of query(): the consumer gives up on the generator, calling
   its return(), while retryWithBackoff is waiting.  An async generator that
   is running (suspended at an await, not at a yield) queues the request:
   the body runs on to its next yield or to its end, and only there does the
   generator complete.  Nothing in retryWithBackoff or query() observes the
   request; the setTimeout of the backoff wait has no clearTimeout. *)

\* The consumer abandons the call during a backoff wait.
QueryAbandon ==
    /\ pc = "retry" /\ rpc = "sleep"
    /\ ~abandoned
    /\ abandoned' = TRUE
    /\ UNCHANGED <<retryVars, queryVars, effortVars, realtimeVars, codexVars>>

\* The abandoned generator reaches a yield: the value is handed to the
\* pending next(), and the queued return() completes the generator there.
AbandonedNextEvent ==
    /\ pc = "iterate" /\ abandoned
    /\ Len(consumed) < MaxEvents
    /\ \E e \in UpstreamEvents :
        /\ consumed' = Append(consumed, e)
        /\ IF Translate(e, Get(thread)) = <<>>
           THEN UNCHANGED <<out, pc>>
           ELSE /\ out' = Append(out, Head(Translate(e, Get(thread))))
                /\ pc' = "closed"
    /\ UNCHANGED <<opts, thread, prompt, calls, thrown>>
    /\ UNCHANGED <<retryVars, effortVars, realtimeVars, codexVars, abandoned>>

\* The stream of the abandoned generator ends: the final yield, then completion.
AbandonedStreamEnds ==
    /\ pc = "iterate" /\ abandoned
    /\ out' = Append(out, ResultSuccess)
    /\ pc' = "closed"
    /\ UNCHANGED <<opts, thread, prompt, calls, consumed, thrown>>
    /\ UNCHANGED <<retryVars, effortVars, realtimeVars, codexVars, abandoned>>

AttendedNextEvent == ~abandoned /\ QueryNextEvent
AttendedStreamEnds == ~abandoned /\ QueryStreamEnds

NextAbandon ==
    \/ QueryGetCodex
    \/ QueryOpenThread
    \/ QueryRunStreamedResolves
    \/ QueryRunStreamedRejects
    \/ QueryBackoffElapses
    \/ QueryAbandon
    \/ AttendedNextEvent
    \/ AttendedStreamEnds
    \/ AbandonedNextEvent
    \/ AbandonedStreamEnds
    \/ QueryStreamThrows

SpecAbandon == InitQuery /\ [][NextAbandon]_vars

-----------------------------------------------------------------------------
(* C31 (SpecAbandon) *)

\* C31: once the consumer has abandoned the query during a backoff wait, the
\* timer of that wait never fires (it was cleared) and runStreamed is not
\* invoked again.
C31_AbandonClearsRetryTimer ==
    [][abandoned => /\ ~(rpc = "sleep" /\ rpc' = "call")
                    /\ fnCalls' = fnCalls]_vars

-----------------------------------------------------------------------------
(* C34, C35 (SpecReconnect) *)

\* Socket i dispatches its error or its close event in this step.
Dispatches(i) ==
    \/ conns'[i].errorEvent # conns[i].errorEvent
    \/ conns'[i].closeEvent # conns[i].closeEvent

\* The client holds a socket, and it is not socket i.
HoldsAnother(i) == ws # Undefined /\ Get(ws) # i

\* C34: an error or close event of a socket the client no longer holds, arriving
\* while the client holds a newer socket, leaves the client holding that
\* socket, and leaves that socket as it was.
C34_StaleEventKeepsNewSocket ==
    [][\A i \in DOMAIN conns :
          Dispatches(i) /\ HoldsAnother(i)
              => ws' = ws /\ conns'[Get(ws)] = conns[Get(ws)]]_vars

\* C35: the handshake timer of a connect() firing while the client holds the
\* socket of a later connect() neither closes that socket nor makes the
\* client let go of it.
C35_TimerTouchesOnlyItsOwnSocket ==
    [][\A i \in DOMAIN conns :
          conns[i].timer = "armed" /\ conns'[i].timer = "fired" /\ HoldsAnother(i)
              => ws' = ws /\ conns'[Get(ws)] = conns[Get(ws)]]_vars

-----------------------------------------------------------------------------
(* C36 (SpecRealtime) *)

\* The connect() that created socket i is resolved in this step.
Resolves(i) == conns[i].promise = "pending" /\ conns'[i].promise = "resolved"

\* A handler of socket i emits session.created in this step.
AnnouncesSession(i) ==
    /\ Len(emitted') = Len(emitted) + 1
    /\ emitted'[Len(emitted')].from = i
    /\ emitted'[Len(emitted')].event.type = "session.created"

\* disconnect() was called while the client held socket i, or the handshake
\* timer of socket i has fired.
GivenUp(i) ==
    \/ \E k \in DOMAIN conns[i].closeCalls : conns[i].closeCalls[k].reason = "Client disconnect"
    \/ conns[i].timer = "fired"

\* C36: a connect() is resolved only while the client holds the socket it
\* created, OPEN; and no message of a socket that was disconnected or whose
\* handshake timed out resolves a connect() or emits session.created.
C36_ResolvedOnlyWhileHoldingOpenSocket ==
    [][\A i \in DOMAIN conns :
          /\ Resolves(i) => ws' = Some(i) /\ conns'[i].readyState = OPEN
          /\ GivenUp(i) => ~Resolves(i) /\ ~AnnouncesSession(i)]_vars

-----------------------------------------------------------------------------
(* Settlement of connect(): reconnection with the handshake message.  A
   timer that stays armed fires: setTimeout callbacks run, so the timeout
   step is weakly fair.  Nothing else is assumed to happen. *)

MaxSettleSockets == 2
MaxSettleMessages == 1

\* The handshake message.
SettleMessages ==
    <<[json |-> Some(JObj([type |-> JStr("session.created"),
                           session |-> JObj([id |-> JStr("sess-1")])]))]>>

SettleConnect == ConnectWith({ConfigEmpty}, MaxSettleSockets)

SettleMessage ==
    /\ nMsgs < MaxSettleMessages
    /\ \E i \in DOMAIN conns : \E k \in DOMAIN SettleMessages :
        /\ conns[i].readyState = OPEN
        /\ Becomes(onmessage(RealtimeState, i, SettleMessages[k]))
    /\ nMsgs' = nMsgs + 1
    /\ UNCHANGED <<lastConnectError, credential, options, retryVars, queryVars, effortVars, codexVars, abandoned, subscriptionVars>>

NextSettle ==
    \/ SettleConnect
    \/ Disconnect
    \/ HandshakeTimeout
    \/ SocketOpens
    \/ SettleMessage
    \/ ReconnectSocketError
    \/ ReconnectSocketClose

SpecSettle == InitRealtime /\ [][NextSettle]_vars /\ WF_vars(HandshakeTimeout)

-----------------------------------------------------------------------------
(* C37 (SpecSettle) *)

Created(i) == Len(conns) >= i
Settled(i) == Len(conns) >= i /\ conns[i].promise # "pending"

\* C37: every connect() that created a socket settles, and settles once: its
\* promise is pending only while its handshake timer is armed, a settled
\* promise never changes, and (an armed timer firing in the end) every
\* promise is settled eventually.
C37_EveryConnectSettlesOnce ==
    /\ [](\A i \in DOMAIN conns : conns[i].promise = "pending" => conns[i].timer = "armed")
    /\ [][\A i \in DOMAIN conns :
             conns[i].promise # "pending"
                 => /\ conns'[i].promise = conns[i].promise
                    /\ conns'[i].rejection = conns[i].rejection]_vars
    /\ \A i \in 1..MaxSettleSockets : Created(i) ~> Settled(i)

\* The first connect() was rejected by its timer, the second resolved by
\* session.created.
C37_Witness ==
    /\ Len(conns) = 2
    /\ conns[1].promise = "rejected" /\ conns[1].timer = "fired"
    /\ conns[2].promise = "resolved" /\ conns[2].timer = "cleared"

-----------------------------------------------------------------------------
(* Listeners: onEvent(), the unsubscribe function it returns, and emit()
   (realtime.ts:57-72), on one connection. *)

MaxRegistrations == 2
MaxUnsubscribes == 2
MaxListenMessages == 2

\* The callbacks handed to onEvent(); "boom" throws on every event.
Callbacks == {"a", "b", "boom"}

ListenMessages ==
    <<[json |-> Some(JObj([type |-> JStr("session.created"),
                           session |-> JObj([id |-> JStr("sess-1")])]))],
      [json |-> Some(JObj([type |-> JStr("response.text.delta"), delta |-> JStr("Hi")]))]>>

\* onEvent(callback): this.listeners.push(callback); the function returned
\* captures the callback.
OnEvent ==
    /\ Len(registered) < MaxRegistrations
    /\ \E cb \in Callbacks :
        /\ listeners' = Append(listeners, [cb |-> cb, reg |-> Len(registered) + 1])
        /\ registered' = Append(registered, cb)
    /\ UNCHANGED <<ws, conns, emitted, received, nMsgs, lastConnectError, credential, options,
                   unsubscribed, retryVars, queryVars, effortVars, codexVars, abandoned>>

\* The function returned by the n-th onEvent():
\* this.listeners = this.listeners.filter((h) => h !== callback).
Unsubscribe ==
    /\ Len(unsubscribed) < MaxUnsubscribes
    /\ \E n \in DOMAIN registered :
        /\ listeners' = SelectSeq(listeners, LAMBDA h : h.cb # registered[n])
        /\ unsubscribed' = Append(unsubscribed, n)
    /\ UNCHANGED <<ws, conns, emitted, received, nMsgs, lastConnectError, credential, options,
                   registered, retryVars, queryVars, effortVars, codexVars, abandoned>>

ListenConnect == ConnectWith({ConfigEmpty}, 1)

ListenMessage ==
    /\ nMsgs < MaxListenMessages
    /\ \E i \in DOMAIN conns : \E k \in DOMAIN ListenMessages :
        /\ conns[i].readyState = OPEN
        /\ Becomes(onmessage(RealtimeState, i, ListenMessages[k]))
    /\ nMsgs' = nMsgs + 1
    /\ UNCHANGED <<lastConnectError, credential, options, retryVars, queryVars, effortVars, codexVars, abandoned, subscriptionVars>>

NextListeners ==
    \/ OnEvent
    \/ Unsubscribe
    \/ ListenConnect
    \/ SocketOpens
    \/ ListenMessage
    \/ ReconnectSocketClose

SpecListeners == InitRealtime /\ [][NextListeners]_vars

-----------------------------------------------------------------------------
(* C38 (SpecListeners) *)

\* The step emits one event.
Emits == Len(emitted') = Len(emitted) + 1
Emitted == emitted'[Len(emitted')]

\* One call of every listener of ls, in order, with the event.
Deliveries(ls, event) ==
    [k \in 1..Len(ls) |-> [reg |-> ls[k].reg, cb |-> ls[k].cb, event |-> event]]

SomeListenerThrows == \E k \in DOMAIN listeners : Throws(listeners[k].cb)

\* C38: a listener that throws does not keep the event from the other
\* listeners (every registered listener is called once, in registration
\* order, at every emit), a server message handed to it leaves this.ws and
\* the state of every socket as they are, and at session.created the session.update frame is still sent and the
\* promise of connect() resolved.
C38_ThrowingListenerStopsNothing ==
    /\ [][Emits => received' = received \o Deliveries(listeners, Emitted.event)]_vars
    /\ [][(Emits /\ SomeListenerThrows /\ nMsgs' # nMsgs)
            => /\ ws' = ws
               /\ \A j \in DOMAIN conns : conns'[j].readyState = conns[j].readyState]_vars
    /\ [][\A i \in DOMAIN conns :
            (AnnouncesSession(i) /\ SomeListenerThrows /\ ws = Some(i))
                => /\ conns'[i].sent = Append(conns[i].sent, SessionUpdateFrame(conns[i].config))
                   /\ conns[i].promise = "pending" => conns'[i].promise = "resolved"]_vars

\* "boom" was registered before "a"; both were called with session.created,
\* the frame went out and connect() resolved.
C38_Witness ==
    /\ Len(listeners) = 2 /\ listeners[1].cb = "boom" /\ listeners[2].cb = "a"
    /\ Len(received) = 2
    /\ received[1].cb = "boom" /\ received[2].cb = "a"
    /\ received[1].event.type = "session.created" /\ received[2].event = received[1].event
    /\ Len(conns) = 1 /\ conns[1].promise = "resolved" /\ conns[1].readyState = OPEN
    /\ Len(conns[1].sent) = 1 /\ conns[1].sent[1].type = "session.update"

-----------------------------------------------------------------------------
(* C39 (SpecListeners) *)

\* The step is a call of the unsubscribe function of the n-th onEvent().
Unsubscribes(n) == unsubscribed' = Append(unsubscribed, n)

\* C39: the unsubscribe function of the n-th onEvent() removes registration n
\* and nothing else: the other registrations, one of the same callback
\* included, stay in order, and a second call changes nothing.
C39_UnsubscribeRemovesItsRegistration ==
    [][\A n \in DOMAIN registered :
         Unsubscribes(n) => listeners' = SelectSeq(listeners, LAMBDA h : h.reg # n)]_vars

====
